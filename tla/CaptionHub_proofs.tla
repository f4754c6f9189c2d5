-------------------------- MODULE CaptionHub_proofs -------------------------
(***************************************************************************)
(* Proofs about the caption hub: what the run of MCCaptionHub checks on    *)
(* one browser and a handful of transcripts holds for every number of      *)
(* connections, every buffer and history length and sessions of any        *)
(* length. The two publishing goroutines, the connections and the pages    *)
(* meet in one inductive invariant, HubInv at the end, whose parts are:    *)
(* PubInv, what a publisher at work broadcasts; HandlerInv, what a         *)
(* connection holds at each place of its handler; SpeechInv, the assembly  *)
(* of the utterances; OrderInv, the lines a channel has taken against the  *)
(* one in hand; PageInv, what is still on its way to a page.               *)
(***************************************************************************)
EXTENDS CaptionHub, FiniteSetTheorems, TLAPS

(* What holds of the hub.                                                  *)

Text == Seq(Nat)

Events == {Final(n) : n \in Nat} \cup {Interim(t) : t \in Text}
          \cup {Status(s) : s \in States}
          \cup {Snapshot(ls, t, s) : ls \in Seq(Nat), t \in Text, s \in States \cup {NoState}}

\* What a publisher may hold.
PubTypes == [pc : {"idle", "onFinal", "targets", "send"},
             ev : Events \cup {<<>>}, todo : SUBSET Clients]

Pages == [lines : Seq(Nat), text : Text, state : States \cup {NoState},
          first : {"none", "snapshot", "final", "interim", "status"}]

TypeOK ==
  /\ committed \in Text /\ interim \in Text
  /\ uttSeq \in Nat /\ history \in Seq(Nat) /\ closed \in Seq(Text)
  /\ announced \in Text /\ words \in Nat
  /\ lastState \in States \cup {NoState}
  /\ pub \in [Publishers -> PubTypes]
  /\ subs \in SUBSET Clients
  /\ chan \in [Clients -> Seq(Events)]
  /\ isClosed \in [Clients -> BOOLEAN]
  /\ handler \in [Clients -> {"out", "joining", "streaming", "leaving", "gone"}]
  /\ snap \in [Clients -> Events \cup {<<>>}]
  /\ viewer \in [Clients -> Pages]
  /\ joinedAt \in [Clients -> Nat]
  /\ finals \in [Clients -> Seq(Nat)]
  /\ written \in Seq(Nat)
  /\ results \in Nat /\ changes \in Nat /\ slowDrops \in Nat
  /\ flushed \in BOOLEAN /\ crashed \in BOOLEAN

\* Who broadcasts what: the hub's goroutine the newest line or the utterance
\* as announced, the engine's the newest state.
PubInv ==
  /\ pub["hub"].pc # "idle" =>
       \/ pub["hub"].ev = Final(uttSeq) /\ announced = <<>> /\ Pending = <<>>
       \/ pub["hub"].ev = Interim(announced) /\ announced = Pending /\ pub["hub"].pc # "onFinal"
  /\ pub["status"].pc # "onFinal"
  /\ pub["status"].pc # "idle" => pub["status"].ev = Status(lastState) /\ lastState \in States
  /\ \A p \in Publishers : (pub[p].pc = "idle" => pub[p] = Idle) /\ (pub[p].pc = "send" => pub[p].todo # {})
  /\ announced = Pending \/ Pending = <<>>

\* A connection by where its handler is, publishers apart.
ConnIs(c) ==
  /\ c \in subs <=> handler[c] \in {"joining", "streaming"}
  /\ isClosed[c] <=> handler[c] = "gone"
  /\ handler[c] = "out" => chan[c] = <<>> /\ finals[c] = <<>>
  /\ handler[c] = "gone" => finals[c] = <<>>
  /\ handler[c] # "streaming" => viewer[c] = BlankPage
  /\ viewer[c].first = "none" => viewer[c] = BlankPage
  /\ handler[c] = "joining" => /\ snap[c] \in Events /\ snap[c].kind = "snapshot"
                               /\ \A i \in DOMAIN chan[c] : chan[c][i].kind # "snapshot"

HandlerInv ==
  \A c \in Clients :
    /\ ConnIs(c)
    /\ handler[c] = "out" => \A p \in Publishers : c \notin pub[p].todo

\* Lines a channel has taken are old, the one in hand is not among them.
OrderInv ==
  \A c \in Clients :
    /\ \A i \in DOMAIN finals[c] : finals[c][i] <= uttSeq
    /\ InHand(pub["hub"], c) # {} => \A i \in DOMAIN finals[c] : finals[c][i] < uttSeq

\* A connection whose page began, or will begin, with its snapshot.
Clean(c) ==
  /\ c \in subs /\ slowDrops = 0
  /\ \/ viewer[c].first = "snapshot"
     \/ viewer[c].first = "none" /\ handler[c] = "joining" /\ chan[c] = <<>>
     \/ /\ viewer[c].first = "none" /\ handler[c] = "streaming"
        /\ chan[c] # <<>> /\ Head(chan[c]).kind = "snapshot"

\* Events on the way to the page.
Coming(c) == IF handler[c] = "joining" THEN <<snap[c]>> ELSE chan[c]

\* Publisher p has its event still to offer to c.
Owes(p, c) == pub[p].pc # "idle" /\ (pub[p].pc = "send" => c \in pub[p].todo)

\* The events that show a text or a state, and those that show the present one.
TextOf(ev) == IF ev.kind = "final" THEN <<>> ELSE ev.text
TextShown  == {ev \in Events : ev.kind # "status"}
StateShown == {ev \in Events : ev.kind \in {"snapshot", "status"}}
RightText  == {ev \in TextShown : TextOf(ev) \in {Pending, announced}}
RightState == {ev \in StateShown : ev.state = lastState}

\* Once s has arrived at a page that shows v, it shows a value of V: the last
\* event of B, which shows one, is of G, which shows a right one.
Arrives(s, G, B, v, V) ==
  \/ \E i \in DOMAIN s : s[i] \in G /\ \A j \in DOMAIN s : j > i => s[j] \notin B
  \/ v \in V /\ \A j \in DOMAIN s : s[j] \notin B

TextArrives(c) ==
  \/ Owes("hub", c)
  \/ Arrives(Coming(c), RightText, TextShown, viewer[c].text, {Pending, announced})

StateArrives(c) ==
  \/ Owes("status", c)
  \/ Arrives(Coming(c), RightState, StateShown, viewer[c].state, {lastState})

Carries(ev, n) ==
  \/ ev.kind = "final" /\ ev.line = n
  \/ ev.kind = "snapshot" /\ \E i \in DOMAIN ev.lines : ev.lines[i] = n

LineArrives(c, n) ==
  \/ Owes("hub", c) /\ pub["hub"].ev = Final(n)
  \/ \E i \in DOMAIN Coming(c) : Carries(Coming(c)[i], n)
  \/ \E i \in DOMAIN viewer[c].lines : viewer[c].lines[i] = n

LinesArrive(c) == \A i \in DOMAIN history : LineArrives(c, history[i])

\* A snapshot is only ever the first event of a page.
SnapshotFirst(c) ==
  \A i \in DOMAIN Coming(c) :
    Coming(c)[i].kind = "snapshot" => i = 1 /\ viewer[c].first = "none"

PageAt(c) == TextArrives(c) /\ StateArrives(c) /\ LinesArrive(c) /\ SnapshotFirst(c)

PageInv == \A c \in Clients : Clean(c) => PageAt(c)

-----------------------------------------------------------------------------
(* Parts of the type invariant, and the events.                            *)

UttOK ==
  /\ committed \in Text /\ interim \in Text /\ announced \in Text
  /\ uttSeq \in Nat /\ history \in Seq(Nat) /\ closed \in Seq(Text) /\ words \in Nat

RestOK ==
  /\ lastState \in States \cup {NoState}
  /\ written \in Seq(Nat)
  /\ results \in Nat /\ changes \in Nat /\ slowDrops \in Nat
  /\ flushed \in BOOLEAN /\ crashed \in BOOLEAN

PubOK == pub \in [Publishers -> PubTypes]

ConnOK ==
  /\ subs \in SUBSET Clients
  /\ chan \in [Clients -> Seq(Events)]
  /\ isClosed \in [Clients -> BOOLEAN]
  /\ handler \in [Clients -> {"out", "joining", "streaming", "leaving", "gone"}]
  /\ snap \in [Clients -> Events \cup {<<>>}]
  /\ viewer \in [Clients -> Pages]
  /\ joinedAt \in [Clients -> Nat]
  /\ finals \in [Clients -> Seq(Nat)]

LEMMA TypeParts == TypeOK <=> UttOK /\ RestOK /\ PubOK /\ ConnOK
BY DEF TypeOK, UttOK, RestOK, PubOK, ConnOK

LEMMA EventFields ==
  /\ \A n : Final(n).kind = "final" /\ Final(n).line = n
  /\ \A t : Interim(t).kind = "interim" /\ Interim(t).text = t
  /\ \A s : Status(s).kind = "status" /\ Status(s).state = s
  /\ \A ls, t, s : /\ Snapshot(ls, t, s).kind = "snapshot" /\ Snapshot(ls, t, s).lines = ls
                   /\ Snapshot(ls, t, s).text = t /\ Snapshot(ls, t, s).state = s
BY DEF Final, Interim, Status, Snapshot

LEMMA EventTypes ==
  /\ \A n \in Nat : Final(n) \in Events
  /\ \A t \in Text : Interim(t) \in Events
  /\ \A s \in States : Status(s) \in Events
  /\ \A ls \in Seq(Nat), t \in Text, s \in States \cup {NoState} : Snapshot(ls, t, s) \in Events
BY DEF Events

\* The state of a publisher that changes it.
LEMMA BecomesIs ==
  ASSUME PubOK, NEW p \in Publishers, NEW st \in PubTypes, Becomes(p, st)
  PROVE  /\ PubOK' /\ pub'[p] = st
         /\ \A q \in Publishers : q # p => pub'[q] = pub[q]
BY DEF PubOK, Becomes

LEMMA PubStates ==
  /\ Idle \in PubTypes
  /\ \A ev \in Events : /\ Broadcasting(ev) \in PubTypes
                        /\ [pc |-> "onFinal", ev |-> ev, todo |-> {}] \in PubTypes
  /\ \A st \in PubTypes : \A S \in SUBSET Clients :
        /\ [st EXCEPT !.todo = S] \in PubTypes
        /\ [st EXCEPT !.pc = "send", !.todo = S] \in PubTypes
BY DEF Idle, Broadcasting, PubTypes

-----------------------------------------------------------------------------
(* Types.                                                                  *)

\* Whatever Publish is given, the utterance is one of these.
LEMMA CloseLineTypes ==
  ASSUME UttOK, PubOK, NEW text \in Text, CloseLine(text), words' \in Nat
  PROVE  UttOK' /\ PubOK'
<1> DEFINE full == LineText(text)
<1>1. full \in Text /\ <<>> \in Text
  BY DEF UttOK, LineText, Text
<1>2. CASE full = <<>>
  BY <1>1, <1>2 DEF CloseLine, UttOK, PubOK
<1>3. CASE full # <<>>
  <2> HIDE DEF full
  <2>1. /\ committed' = <<>> /\ interim' = <<>> /\ announced' = <<>>
        /\ uttSeq' = uttSeq + 1 /\ history' = Trim(Append(history, uttSeq'))
        /\ closed' = Append(closed, full)
        /\ Becomes("hub", [pc |-> "onFinal", ev |-> Final(uttSeq'), todo |-> {}])
    BY <1>3 DEF CloseLine, full
  <2>2. uttSeq' \in Nat /\ closed' \in Seq(Text)
    BY <1>1, <2>1 DEF UttOK
  <2>3. Append(history, uttSeq') \in Seq(Nat)
    BY <2>2 DEF UttOK
  <2>4. \A h \in Seq(Nat) : Trim(h) \in Seq(Nat)
    BY HubAssumption DEF Trim
  <2>5. history' \in Seq(Nat)
    BY <2>1, <2>3, <2>4
  <2>6. PubOK'
    BY <2>1, <2>2, BecomesIs, PubStates, EventTypes DEF Publishers
  <2> QED
    BY <1>1, <2>1, <2>2, <2>5, <2>6 DEF UttOK
<1> QED
  BY <1>2, <1>3

LEMMA CommitTypes ==
  ASSUME UttOK, PubOK, NEW text \in Text, Commit(text) \/ Revise(text), words' \in Nat
  PROVE  UttOK' /\ PubOK'
<1>1. committed \o text \in Text /\ <<>> \in Text
  BY DEF UttOK, Text
<1>2. committed' \in Text /\ interim' \in Text /\ announced' \in Text
      /\ UNCHANGED <<uttSeq, history, closed>>
      /\ Becomes("hub", Broadcasting(Interim(announced')))
  BY <1>1 DEF Commit, Revise, UttOK
<1>3. PubOK'
  BY <1>2, BecomesIs, PubStates, EventTypes DEF Publishers
<1> QED
  BY <1>2, <1>3 DEF UttOK

LEMMA PublishTypes == TypeOK /\ (Publish \/ Flush) => UttOK' /\ PubOK'
<1> SUFFICES ASSUME UttOK, PubOK, Publish \/ Flush PROVE UttOK' /\ PubOK'
  BY TypeParts
<1>0. <<>> \in Text /\ <<Guess>> \in Text /\ words + 1 \in Nat /\ <<words + 1>> \in Text
  BY DEF UttOK, Text, Guess
<1>1. CASE Publish
  <2>1. CASE Revise(<<Guess>>) /\ UNCHANGED words
    BY <1>0, <2>1, CommitTypes DEF UttOK
  <2>2. CASE Commit(<<words + 1>>) /\ words' = words + 1
    BY <1>0, <2>2, CommitTypes DEF UttOK
  <2>3. CASE CloseLine(<<words + 1>>) /\ words' = words + 1
    BY <1>0, <2>3, CloseLineTypes DEF UttOK
  <2>4. CASE CloseLine(<<>>) /\ UNCHANGED words
    BY <1>0, <2>4, CloseLineTypes DEF UttOK
  <2> QED
    BY <1>1, <2>1, <2>2, <2>3, <2>4 DEF Publish
<1>2. CASE Flush
  <2>1. CASE Pending = <<>>
    BY <1>2, <2>1 DEF Flush, UttOK, PubOK
  <2>2. CASE Pending # <<>>
    BY <1>0, <1>2, <2>2, CloseLineTypes DEF Flush, UttOK
  <2> QED
    BY <2>1, <2>2
<1> QED
  BY <1>1, <1>2

\* The page applies an event of its type.
LEMMA ShowTypes ==
  ASSUME NEW page \in Pages, NEW ev \in Events
  PROVE  Show(page, ev) \in Pages
<1> DEFINE seen == [page EXCEPT !.first = IF @ = "none" THEN ev.kind ELSE @]
<1>0. ev.kind \in {"snapshot", "final", "interim", "status"}
  BY EventFields DEF Events
<1>1. seen \in Pages
  BY <1>0 DEF Pages
<1> HIDE DEF seen
<1>2. CASE ev.kind = "snapshot"
  <2>1. ev.lines \in Seq(Nat) /\ ev.text \in Text /\ ev.state \in States \cup {NoState}
    BY <1>2, EventFields DEF Events
  <2>2. Show(page, ev) = [seen EXCEPT !.lines = ev.lines, !.text = ev.text,
                                      !.state = IF ev.state = NoState THEN @ ELSE ev.state]
    BY <1>2 DEF Show, seen
  <2> DEFINE state == IF ev.state = NoState THEN seen.state ELSE ev.state
  <2>3. state \in States \cup {NoState}
    BY <1>1, <2>1 DEF Pages
  <2>4. Show(page, ev) = [seen EXCEPT !.lines = ev.lines, !.text = ev.text, !.state = state]
    BY <1>1, <2>2 DEF Pages
  <2> HIDE DEF state
  <2> QED
    BY <1>1, <2>1, <2>3, <2>4 DEF Pages
<1>3. CASE ev.kind = "final"
  <2>1. ev.line \in Nat /\ <<>> \in Text
    BY <1>3, EventFields DEF Events, Text
  <2>2. Show(page, ev) = [seen EXCEPT !.lines = Append(@, ev.line), !.text = <<>>]
    BY <1>3 DEF Show, seen
  <2> DEFINE lines == Append(seen.lines, ev.line)
  <2>3. lines \in Seq(Nat)
    BY <1>1, <2>1 DEF Pages
  <2>4. Show(page, ev) = [seen EXCEPT !.lines = lines, !.text = <<>>]
    BY <1>1, <2>2 DEF Pages
  <2> HIDE DEF lines
  <2> QED
    BY <1>1, <2>1, <2>3, <2>4 DEF Pages
<1>4. CASE ev.kind = "interim"
  <2>1. ev.text \in Text
    BY <1>4, EventFields DEF Events
  <2>2. Show(page, ev) = [seen EXCEPT !.text = ev.text]
    BY <1>4 DEF Show, seen
  <2> QED
    BY <1>1, <2>1, <2>2 DEF Pages
<1>5. CASE ev.kind = "status"
  <2>1. ev.state \in States
    BY <1>5, EventFields DEF Events
  <2>2. Show(page, ev) = [seen EXCEPT !.state = ev.state]
    BY <1>5 DEF Show, seen
  <2> QED
    BY <1>1, <2>1, <2>2 DEF Pages
<1> QED
  BY <1>0, <1>2, <1>3, <1>4, <1>5

-----------------------------------------------------------------------------
(* Steps and types.                                                        *)

\* What the connections leave alone, and what the publishers do.
LEMMA ConnFrame ==
  ASSUME NEW c \in Clients, Connection(c)
  PROVE  UNCHANGED <<uttVars, lastState, pub, written, envVars, slowDrops, crashed>>
BY DEF Connection, Subscribe, SendSnapshot, Stream, Unsubscribe, CloseChannel,
       HandlerUnchanged

LEMMA PublisherFrame ==
  ASSUME \/ Publish \/ Flush \/ OnFinal
         \/ (\E s \in States : PublishStatus(s)) \/ (\E p \in Publishers : Targets(p))
  PROVE  UNCHANGED <<connVars, slowDrops, crashed>>
BY DEF Publish, Flush, OnFinal, PublishStatus, Targets

LEMMA SendFrame ==
  ASSUME NEW p \in Publishers, NEW c \in Clients, Send(p, c)
  PROVE  UNCHANGED <<uttVars, lastState, subs, isClosed, handler, snap, viewer,
                     joinedAt, written, envVars>>
BY DEF Send

\* Every step is one of these.
LEMMA Steps ==
  ASSUME [Next]_vars
  PROVE  \/ Publish \/ Flush \/ OnFinal
         \/ \E s \in States : PublishStatus(s)
         \/ \E p \in Publishers : Targets(p)
         \/ \E p \in Publishers, c \in Clients : Send(p, c)
         \/ \E c \in Clients : Connection(c)
         \/ UNCHANGED vars
BY DEF Next, HubStep, StatusStep, Broadcast, Publishers

\* A publisher at work holds an event.
LEMMA EventInHand ==
  ASSUME TypeOK, PubInv, NEW p \in Publishers, pub[p].pc # "idle"
  PROVE  pub[p].ev \in Events
<1>1. CASE p = "hub"
  BY <1>1, EventTypes DEF PubInv, TypeOK
<1>2. CASE p = "status"
  BY <1>2, EventTypes DEF PubInv, TypeOK
<1> QED
  BY <1>1, <1>2 DEF Publishers

\* A send ends the process, reaches the channel, or is dropped and counted.
LEMMA SendIs ==
  ASSUME TypeOK, PubInv, NEW p \in Publishers, NEW c \in Clients, Send(p, c)
  PROVE  /\ pub[p].pc = "send" /\ c \in pub[p].todo /\ pub[p].ev \in Events
         /\ \/ /\ isClosed[c] /\ UNCHANGED <<pub, chan, finals, slowDrops>> /\ crashed' = TRUE
            \/ /\ ~isClosed[c] /\ Becomes(p, Sent(p, c)) /\ crashed' = crashed
               /\ chan' = [chan EXCEPT ![c] = Append(@, pub[p].ev)]
               /\ slowDrops' = slowDrops
               /\ finals' = IF pub[p].ev.kind # "final" THEN finals
                            ELSE [finals EXCEPT ![c] = Append(@, pub[p].ev.line)]
            \/ /\ ~isClosed[c] /\ Becomes(p, Sent(p, c)) /\ crashed' = crashed
               /\ slowDrops' = slowDrops + 1 /\ UNCHANGED <<chan, finals>>
BY EventInHand DEF Send, Deliver, DropEvent

\* The publisher after a send.
LEMMA SentIs ==
  ASSUME TypeOK, NEW p \in Publishers, NEW c \in Clients, pub[p].pc = "send", c \in pub[p].todo
  PROVE  /\ Sent(p, c) \in PubTypes
         /\ \/ Sent(p, c) = Idle /\ pub[p].todo = {c}
            \/ /\ Sent(p, c).pc = "send" /\ Sent(p, c).ev = pub[p].ev
               /\ Sent(p, c).todo = pub[p].todo \ {c} /\ Sent(p, c).todo # {}
<1> DEFINE left == pub[p].todo \ {c}
<1>1. pub[p] \in PubTypes /\ left \in SUBSET Clients
  BY DEF TypeOK, PubTypes
<1>2. CASE left = {}
  <2>1. Sent(p, c) = Idle /\ pub[p].todo = {c}
    BY <1>2 DEF Sent
  <2> QED
    BY <2>1, PubStates
<1>3. CASE left # {}
  <2>1. Sent(p, c) = [pub[p] EXCEPT !.todo = left]
    BY <1>3 DEF Sent
  <2> HIDE DEF left
  <2>2. Sent(p, c) \in PubTypes
    BY <1>1, <2>1, PubStates
  <2>3. Sent(p, c).pc = "send" /\ Sent(p, c).ev = pub[p].ev /\ Sent(p, c).todo = left
    BY <1>1, <2>1 DEF PubTypes
  <2> QED
    BY <1>3, <2>2, <2>3 DEF left
<1> QED
  BY <1>2, <1>3

LEMMA TargetsIs ==
  ASSUME TypeOK, NEW p \in Publishers, Targets(p)
  PROVE  /\ pub[p].pc = "targets" /\ PubOK' 
         /\ \A q \in Publishers : q # p => pub'[q] = pub[q]
         /\ UNCHANGED <<uttVars, lastState, connVars, written, envVars, slowDrops, crashed>>
         /\ \/ pub'[p] = Idle /\ subs = {}
            \/ /\ pub'[p].pc = "send" /\ pub'[p].ev = pub[p].ev /\ pub'[p].todo = subs
               /\ subs # {}
<1> DEFINE st == IF subs = {} THEN Idle ELSE [pub[p] EXCEPT !.pc = "send", !.todo = subs]
<1>1. pub[p] \in PubTypes /\ subs \in SUBSET Clients
  BY DEF TypeOK
<1>2. st \in PubTypes /\ Becomes(p, st)
  BY <1>1, PubStates DEF Targets
<1>3. subs # {} => st.pc = "send" /\ st.ev = pub[p].ev /\ st.todo = subs
  BY <1>1 DEF PubTypes
<1>4. subs = {} => st = Idle
  OBVIOUS
<1> HIDE DEF st
<1>5. PubOK' /\ pub'[p] = st /\ \A q \in Publishers : q # p => pub'[q] = pub[q]
  BY <1>2, BecomesIs, TypeParts
<1> QED
  BY <1>3, <1>4, <1>5 DEF Targets

LEMMA TypeNext == TypeOK /\ PubInv /\ HandlerInv /\ [Next]_vars => TypeOK'
<1> SUFFICES ASSUME TypeOK, PubInv, HandlerInv, [Next]_vars PROVE UttOK' /\ RestOK' /\ PubOK' /\ ConnOK'
  BY DEF TypeOK, UttOK, RestOK, PubOK, ConnOK
<1> USE TypeParts
<1>1. CASE Publish \/ Flush
  <2>1. UttOK' /\ PubOK'
    BY <1>1, PublishTypes
  <2>2. RestOK'
    <3>1. /\ lastState' = lastState /\ written' = written /\ changes' = changes
          /\ slowDrops' = slowDrops /\ crashed' = crashed
      BY <1>1 DEF Publish, Flush
    <3>2. results' = results \/ results' = results + 1
      BY <1>1 DEF Publish, Flush
    <3>3. results' \in Nat
      BY <3>2 DEF RestOK
    <3>4. flushed' = flushed \/ flushed' = TRUE
      BY <1>1 DEF Publish, Flush
    <3>5. flushed' \in BOOLEAN
      BY <3>4 DEF RestOK
    <3> QED
      BY <3>1, <3>3, <3>5 DEF RestOK
  <2>3. ConnOK'
    BY <1>1, PublisherFrame DEF ConnOK, connVars
  <2> QED
    BY <2>1, <2>2, <2>3
<1>2. CASE OnFinal
  <2>1. pub["hub"].pc = "onFinal" /\ pub["hub"].ev = Final(uttSeq)
    BY <1>2, EventFields DEF OnFinal, PubInv
  <2>2. pub["hub"].ev \in Events /\ pub["hub"].ev.line \in Nat
    BY <2>1, EventFields, EventTypes DEF UttOK
  <2>3. PubOK'
    BY <1>2, <2>2, BecomesIs, PubStates DEF OnFinal, Publishers
  <2>4. written' \in Seq(Nat)
    BY <1>2, <2>2 DEF OnFinal, RestOK
  <2> QED
    BY <1>2, <2>3, <2>4 DEF OnFinal, uttVars, connVars, envVars, UttOK, RestOK, ConnOK
<1>3. ASSUME NEW s \in States, PublishStatus(s) PROVE UttOK' /\ RestOK' /\ PubOK' /\ ConnOK'
  <2>1. PubOK'
    BY <1>3, BecomesIs, PubStates, EventTypes DEF PublishStatus, Publishers
  <2> QED
    BY <1>3, <2>1 DEF PublishStatus, uttVars, connVars, UttOK, RestOK, ConnOK
<1>4. ASSUME NEW p \in Publishers, Targets(p) PROVE UttOK' /\ RestOK' /\ PubOK' /\ ConnOK'
  BY <1>4, TargetsIs DEF uttVars, connVars, envVars, UttOK, RestOK, ConnOK
<1>5. ASSUME NEW p \in Publishers, NEW c \in Clients, Send(p, c)
      PROVE  UttOK' /\ RestOK' /\ PubOK' /\ ConnOK'
  <2>1. pub[p].pc = "send" /\ c \in pub[p].todo /\ pub[p].ev \in Events
    BY <1>5, SendIs
  <2>2. PubOK'
    <3>1. CASE pub' = pub
      BY <3>1 DEF PubOK
    <3>2. CASE Becomes(p, Sent(p, c))
      BY <2>1, <3>2, BecomesIs, SentIs
    <3> QED
      BY <1>5, <3>1, <3>2, SendIs
  <2>3. crashed' \in BOOLEAN /\ slowDrops' \in Nat
    <3>1. slowDrops' = slowDrops \/ slowDrops' = slowDrops + 1
      BY <1>5, SendIs
    <3>2. slowDrops' \in Nat
      BY <3>1 DEF RestOK
    <3>3. crashed' = crashed \/ crashed' = TRUE
      BY <1>5, SendIs
    <3>4. crashed' \in BOOLEAN
      BY <3>3 DEF RestOK
    <3> QED
      BY <3>2, <3>4
  <2>4. chan' \in [Clients -> Seq(Events)]
    <3> DEFINE longer == Append(chan[c], pub[p].ev)
    <3>1. longer \in Seq(Events)
      BY <2>1 DEF ConnOK
    <3>2. chan' = chan \/ chan' = [chan EXCEPT ![c] = longer]
      BY <1>5, SendIs DEF ConnOK
    <3> HIDE DEF longer
    <3> QED
      BY <3>1, <3>2 DEF ConnOK
  <2>5. finals' \in [Clients -> Seq(Nat)]
    <3>1. pub[p].ev.kind = "final" => pub[p].ev.line \in Nat
      BY <2>1, EventFields DEF Events
    <3> DEFINE longer == Append(finals[c], pub[p].ev.line)
    <3>2. pub[p].ev.kind = "final" => longer \in Seq(Nat)
      BY <3>1 DEF ConnOK
    <3>3. finals' # finals => pub[p].ev.kind = "final" /\ finals' = [finals EXCEPT ![c] = longer]
      BY <1>5, SendIs DEF ConnOK
    <3> HIDE DEF longer
    <3> QED
      BY <3>2, <3>3 DEF ConnOK
  <2> QED
    BY <1>5, <2>2, <2>3, <2>4, <2>5, SendFrame DEF uttVars, envVars, UttOK, RestOK, ConnOK
<1>6. ASSUME NEW c \in Clients, Connection(c) PROVE UttOK' /\ RestOK' /\ PubOK' /\ ConnOK'
  <2>1. UttOK' /\ RestOK' /\ PubOK'
    BY <1>6, ConnFrame DEF uttVars, envVars, UttOK, RestOK, PubOK
  <2>2. CASE Subscribe(c)
    <3>1. Pending \in Text
      BY DEF Pending, Text, UttOK
    <3>2. Snapshot(history, Pending, lastState) \in Events
      BY <3>1, EventTypes DEF UttOK, RestOK
    <3> QED
      BY <2>1, <2>2, <3>2 DEF Subscribe, ConnOK, UttOK
  <2>3. CASE SendSnapshot(c)
    <3>1. Append(chan[c], snap[c]) \in Seq(Events)
      <4>1. snap[c] \in Events
        BY <2>3 DEF SendSnapshot, ConnOK, HandlerInv, ConnIs
      <4> QED
        BY <4>1 DEF ConnOK
    <3> QED
      BY <2>1, <2>3, <3>1 DEF SendSnapshot, ConnOK
  <2>4. CASE Stream(c)
    <3>1. Head(chan[c]) \in Events /\ Tail(chan[c]) \in Seq(Events)
      BY <2>4 DEF Stream, ConnOK
    <3>2. Show(viewer[c], Head(chan[c])) \in Pages
      BY <3>1, ShowTypes DEF ConnOK
    <3> QED
      BY <2>1, <2>4, <3>1, <3>2 DEF Stream, ConnOK
  <2>5. CASE Unsubscribe(c)
    <3>1. BlankPage \in Pages
      BY DEF BlankPage, Pages, Text
    <3> QED
      BY <2>1, <2>5, <3>1 DEF Unsubscribe, ConnOK
  <2>6. CASE CloseChannel(c)
    <3>1. <<>> \in Seq(Events) /\ <<>> \in Seq(Nat)
      OBVIOUS
    <3> QED
      BY <2>1, <2>6, <3>1 DEF CloseChannel, ConnOK
  <2> QED
    BY <1>6, <2>2, <2>3, <2>4, <2>5, <2>6 DEF Connection
<1>7. CASE UNCHANGED vars
  BY <1>7 DEF vars, uttVars, connVars, envVars, UttOK, RestOK, PubOK, ConnOK
<1> QED
  BY <1>1, <1>2, <1>3, <1>4, <1>5, <1>6, <1>7, Steps

-----------------------------------------------------------------------------
(* What the steps do to the utterance and to the publishers.               *)

\* What one transcript does to the utterance: it closes a line ...
NewLine ==
  /\ committed' = <<>> /\ interim' = <<>> /\ announced' = <<>> /\ Pending' = <<>>
  /\ uttSeq' = uttSeq + 1 /\ history' = Trim(Append(history, uttSeq + 1))
  /\ pub'["hub"] = [pc |-> "onFinal", ev |-> Final(uttSeq + 1), todo |-> {}]
  /\ \E full \in Text :
       /\ full # <<>> /\ closed' = Append(closed, full)
       /\ \/ full = committed /\ words' = words
          \/ full = committed \o <<words + 1>> /\ words' = words + 1

\* ... is announced ...
Announced ==
  /\ uttSeq' = uttSeq /\ history' = history /\ closed' = closed
  /\ announced' = Pending' /\ pub'["hub"] = Broadcasting(Interim(announced'))
  /\ \/ committed' = committed /\ words' = words
     \/ committed' = committed \o <<words + 1>> /\ words' = words + 1

\* ... or leaves nothing to say.
NothingSaid ==
  /\ uttSeq' = uttSeq /\ history' = history /\ closed' = closed
  /\ announced' = announced /\ pub' = pub
  /\ committed' = committed /\ words' = words
  /\ Pending' = Pending \/ Pending' = <<>>

LEMMA CloseLineIs ==
  ASSUME TypeOK, NEW text \in Text, CloseLine(text),
         \/ text = <<>> /\ words' = words
         \/ text = <<words + 1>> /\ words' = words + 1
  PROVE  /\ NewLine \/ NothingSaid
         /\ pub'["status"] = pub["status"]
<1> DEFINE full == LineText(text)
<1>0. committed \in Text /\ words \in Nat /\ PubOK
  BY DEF TypeOK, PubOK
<1>1. full \in Text
  BY <1>0 DEF LineText, Text
<1>2. committed' = <<>> /\ interim' = <<>> /\ Pending' = <<>>
  <2>1. committed' = <<>> /\ interim' = <<>>
    BY DEF CloseLine
  <2> QED
    BY <2>1 DEF Pending
<1>3. CASE full = <<>>
  <2>1. committed = <<>> /\ text = <<>>
    BY <1>0, <1>3 DEF LineText, Text
  <2>2. uttSeq' = uttSeq /\ history' = history /\ closed' = closed
        /\ announced' = announced /\ pub' = pub
    BY <1>3 DEF CloseLine
  <2> QED
    BY <1>2, <2>1, <2>2 DEF NothingSaid
<1>4. CASE full # <<>>
  <2>1. \/ full = committed /\ words' = words
        \/ full = committed \o <<words + 1>> /\ words' = words + 1
    <3>1. text = <<>> => full = committed
      BY <1>0 DEF LineText, Text
    <3> QED
      BY <3>1 DEF LineText
  <2> HIDE DEF full
  <2>2. /\ announced' = <<>> /\ uttSeq' = uttSeq + 1 /\ history' = Trim(Append(history, uttSeq'))
        /\ closed' = Append(closed, full)
        /\ Becomes("hub", [pc |-> "onFinal", ev |-> Final(uttSeq'), todo |-> {}])
    BY <1>4 DEF CloseLine, full
  <2>3. /\ pub'["hub"] = [pc |-> "onFinal", ev |-> Final(uttSeq + 1), todo |-> {}]
        /\ pub'["status"] = pub["status"]
    BY <1>0, <2>2 DEF Becomes, PubOK, Publishers
  <2> QED
    BY <1>1, <1>2, <1>4, <2>1, <2>2, <2>3 DEF NewLine
<1> QED
  BY <1>3, <1>4

LEMMA PublishIs ==
  ASSUME TypeOK, Publish \/ Flush
  PROVE  /\ pub["hub"].pc = "idle" /\ pub'["status"] = pub["status"]
         /\ lastState' = lastState /\ written' = written
         /\ NewLine \/ Announced \/ NothingSaid
<1>0. <<>> \in Text /\ <<words + 1>> \in Text /\ PubOK /\ committed \in Text
  BY DEF TypeOK, PubOK, Text
<1>1. pub["hub"].pc = "idle" /\ lastState' = lastState /\ written' = written
  BY DEF Publish, Flush
<1>2. CASE Revise(<<Guess>>) /\ words' = words
  <2>1. /\ committed' = committed /\ interim' = <<Guess>> /\ announced' = committed \o <<Guess>>
        /\ Becomes("hub", Broadcasting(Interim(announced')))
        /\ uttSeq' = uttSeq /\ history' = history /\ closed' = closed
    BY <1>2 DEF Revise
  <2>2. pub'["hub"] = Broadcasting(Interim(announced')) /\ pub'["status"] = pub["status"]
    BY <1>0, <2>1 DEF Becomes, PubOK, Publishers
  <2>3. announced' = Pending'
    BY <2>1 DEF Pending
  <2> QED
    BY <1>1, <1>2, <2>1, <2>2, <2>3 DEF Announced
<1>3. CASE Commit(<<words + 1>>) /\ words' = words + 1
  <2>1. /\ committed' = committed \o <<words + 1>> /\ interim' = <<>> /\ announced' = committed'
        /\ Becomes("hub", Broadcasting(Interim(announced')))
        /\ uttSeq' = uttSeq /\ history' = history /\ closed' = closed
    BY <1>3 DEF Commit
  <2>2. pub'["hub"] = Broadcasting(Interim(announced')) /\ pub'["status"] = pub["status"]
    BY <1>0, <2>1 DEF Becomes, PubOK, Publishers
  <2>3. announced' = Pending'
    <3>1. committed' \in Text
      BY <1>0, <2>1 DEF Text
    <3> QED
      BY <2>1, <3>1 DEF Pending, Text
  <2> QED
    BY <1>1, <1>3, <2>1, <2>2, <2>3 DEF Announced
<1>4. CASE CloseLine(<<words + 1>>) /\ words' = words + 1
  BY <1>0, <1>1, <1>4, CloseLineIs
<1>5. CASE CloseLine(<<>>) /\ words' = words
  BY <1>0, <1>1, <1>5, CloseLineIs
<1>6. CASE Flush /\ Pending = <<>>
  <2>1. uttSeq' = uttSeq /\ history' = history /\ closed' = closed /\ words' = words
        /\ announced' = announced /\ pub' = pub /\ committed' = committed /\ interim' = interim
    BY <1>6 DEF Flush
  <2> QED
    BY <1>1, <2>1 DEF NothingSaid, Pending
<1>7. \/ Revise(<<Guess>>) /\ words' = words
      \/ Commit(<<words + 1>>) /\ words' = words + 1
      \/ CloseLine(<<words + 1>>) /\ words' = words + 1
      \/ CloseLine(<<>>) /\ words' = words
      \/ Flush /\ Pending = <<>>
  BY DEF Publish, Flush
<1> QED
  BY <1>2, <1>3, <1>4, <1>5, <1>6, <1>7

LEMMA IdleIs == Idle.pc = "idle" /\ Idle.todo = {} /\ Idle.ev = <<>>
BY DEF Idle

LEMMA BroadcastingIs ==
  \A ev : Broadcasting(ev).pc = "targets" /\ Broadcasting(ev).ev = ev /\ Broadcasting(ev).todo = {}
BY DEF Broadcasting

\* A publisher gets on with its broadcast.
LEMMA BroadcastStep ==
  ASSUME TypeOK, PubInv, NEW p \in Publishers, pub[p].pc # "idle",
         committed' = committed, interim' = interim, announced' = announced,
         uttSeq' = uttSeq, lastState' = lastState,
         \A q \in Publishers : q # p => pub'[q] = pub[q],
         \/ pub'[p] = Idle
         \/ /\ pub'[p].pc \in {"targets", "send"} /\ pub'[p].ev = pub[p].ev
            /\ pub'[p].pc = "send" => pub'[p].todo # {}
  PROVE  PubInv'
<1>1. Pending' = Pending
  BY DEF Pending
<1>2. CASE p = "hub"
  BY <1>1, <1>2, IdleIs DEF PubInv, Publishers
<1>3. CASE p = "status"
  BY <1>1, <1>3, IdleIs DEF PubInv, Publishers
<1> QED
  BY <1>2, <1>3 DEF Publishers

LEMMA OnFinalIs ==
  ASSUME TypeOK, OnFinal
  PROVE  /\ pub["hub"].pc = "onFinal" /\ pub'["status"] = pub["status"]
         /\ pub'["hub"].pc = "targets" /\ pub'["hub"].ev = pub["hub"].ev /\ pub'["hub"].todo = {}
         /\ written' = Append(written, pub["hub"].ev.line)
         /\ UNCHANGED <<uttVars, lastState, connVars, envVars, slowDrops>>
BY BroadcastingIs DEF OnFinal, Becomes, Publishers, TypeOK

LEMMA PublishStatusIs ==
  ASSUME TypeOK, NEW s \in States, PublishStatus(s)
  PROVE  /\ pub["status"].pc = "idle" /\ pub'["hub"] = pub["hub"]
         /\ pub'["status"] = Broadcasting(Status(s)) /\ lastState' = s
         /\ UNCHANGED <<uttVars, connVars, written, slowDrops>>
BY DEF PublishStatus, Becomes, Publishers, TypeOK

\* The publisher of a send, and the others.
LEMMA SenderIs ==
  ASSUME TypeOK, PubInv, NEW p \in Publishers, NEW c \in Clients, Send(p, c)
  PROVE  \/ pub' = pub /\ isClosed[c]
         \/ /\ \A q \in Publishers : q # p => pub'[q] = pub[q]
            /\ \/ pub'[p] = Idle /\ pub[p].todo = {c}
               \/ /\ pub'[p].pc = "send" /\ pub'[p].ev = pub[p].ev
                  /\ pub'[p].todo = pub[p].todo \ {c} /\ pub'[p].todo # {}
<1>1. pub[p].pc = "send" /\ c \in pub[p].todo
  BY SendIs
<1>2. CASE Becomes(p, Sent(p, c))
  BY <1>1, <1>2, SentIs, BecomesIs, TypeParts
<1> QED
  BY <1>2, SendIs

LEMMA PubNext == TypeOK /\ PubInv /\ [Next]_vars => PubInv'
<1> SUFFICES ASSUME TypeOK, PubInv, [Next]_vars PROVE PubInv'
  OBVIOUS
<1>1. CASE Publish \/ Flush
  <2>0. pub["hub"].pc = "idle" /\ pub'["status"] = pub["status"] /\ lastState' = lastState
    BY <1>1, PublishIs
  <2>1. CASE NewLine
    BY <2>0, <2>1, IdleIs DEF NewLine, PubInv, Publishers
  <2>2. CASE Announced
    BY <2>0, <2>2, BroadcastingIs DEF Announced, PubInv, Publishers
  <2>3. CASE NothingSaid
    BY <2>0, <2>3 DEF NothingSaid, PubInv, Publishers
  <2> QED
    BY <1>1, <2>1, <2>2, <2>3, PublishIs
<1>2. CASE OnFinal
  BY <1>2, OnFinalIs, BroadcastStep DEF uttVars, Publishers
<1>3. ASSUME NEW s \in States, PublishStatus(s) PROVE PubInv'
  <2>1. Pending' = Pending
    BY <1>3, PublishStatusIs DEF uttVars, Pending
  <2> QED
    BY <1>3, <2>1, PublishStatusIs, BroadcastingIs DEF uttVars, PubInv, Publishers
<1>4. ASSUME NEW p \in Publishers, Targets(p) PROVE PubInv'
  BY <1>4, TargetsIs, BroadcastStep DEF uttVars
<1>5. ASSUME NEW p \in Publishers, NEW c \in Clients, Send(p, c) PROVE PubInv'
  <2>1. UNCHANGED <<uttVars, lastState>> /\ pub[p].pc = "send"
    BY <1>5, SendFrame, SendIs
  <2>2. CASE pub' = pub
    BY <2>1, <2>2 DEF PubInv, Pending, uttVars
  <2> QED
    BY <1>5, <2>1, <2>2, SenderIs, BroadcastStep DEF uttVars
<1>6. ASSUME NEW c \in Clients, Connection(c) PROVE PubInv'
  BY <1>6, ConnFrame DEF uttVars, PubInv, Pending
<1>7. CASE UNCHANGED vars
  BY <1>7 DEF vars, uttVars, PubInv, Pending
<1> QED
  BY <1>1, <1>2, <1>3, <1>4, <1>5, <1>6, <1>7, Steps

-----------------------------------------------------------------------------
(* Connections.                                                            *)

\* A sequence with one element more, or its first one less.
LEMMA AppendKeeps ==
  ASSUME NEW S, NEW s \in Seq(S), NEW e \in S
  PROVE  /\ Append(s, e) \in Seq(S) /\ Len(Append(s, e)) = Len(s) + 1
         /\ DOMAIN Append(s, e) = DOMAIN s \cup {Len(s) + 1}
         /\ \A i \in DOMAIN s : Append(s, e)[i] = s[i] /\ i < Len(s) + 1
         /\ Append(s, e)[Len(s) + 1] = e /\ Len(s) + 1 \notin DOMAIN s
OBVIOUS

LEMMA TailShifts ==
  ASSUME NEW S, NEW s \in Seq(S), s # <<>>
  PROVE  /\ Head(s) = s[1] /\ Head(s) \in S /\ 1 \in DOMAIN s
         /\ Tail(s) \in Seq(S)
         /\ \A i \in DOMAIN Tail(s) : i + 1 \in DOMAIN s /\ Tail(s)[i] = s[i + 1]
         /\ \A i \in DOMAIN s : i # 1 => i - 1 \in DOMAIN Tail(s) /\ Tail(s)[i - 1] = s[i]
OBVIOUS

\* A publisher sends to nobody that is not, or was not, registered.
LEMMA TodoNext ==
  ASSUME TypeOK, PubInv, [Next]_vars
  PROVE  \A p \in Publishers : \A c \in pub'[p].todo : c \in pub[p].todo \/ c \in subs
<1>1. CASE Publish \/ Flush
  BY <1>1, PublishIs, BroadcastingIs DEF NewLine, Announced, NothingSaid, Publishers
<1>2. CASE OnFinal
  BY <1>2, OnFinalIs DEF Publishers
<1>3. ASSUME NEW s \in States, PublishStatus(s)
      PROVE  \A p \in Publishers : \A c \in pub'[p].todo : c \in pub[p].todo \/ c \in subs
  BY <1>3, PublishStatusIs, BroadcastingIs DEF Publishers
<1>4. ASSUME NEW q \in Publishers, Targets(q)
      PROVE  \A p \in Publishers : \A c \in pub'[p].todo : c \in pub[p].todo \/ c \in subs
  BY <1>4, TargetsIs, IdleIs
<1>5. ASSUME NEW q \in Publishers, NEW d \in Clients, Send(q, d)
      PROVE  \A p \in Publishers : \A c \in pub'[p].todo : c \in pub[p].todo \/ c \in subs
  BY <1>5, SenderIs, IdleIs
<1>6. CASE pub' = pub
  BY <1>6
<1> QED
  BY <1>1, <1>2, <1>3, <1>4, <1>5, <1>6, Steps, ConnFrame DEF vars

\* A connection's handler step leaves the other connections alone.
LEMMA OthersStay ==
  ASSUME TypeOK, NEW d \in Clients, Connection(d), NEW c \in Clients, c # d
  PROVE  /\ c \in subs' <=> c \in subs
         /\ chan'[c] = chan[c] /\ (isClosed'[c] <=> isClosed[c]) /\ handler'[c] = handler[c]
         /\ snap'[c] = snap[c] /\ viewer'[c] = viewer[c] /\ joinedAt'[c] = joinedAt[c]
         /\ finals'[c] = finals[c]
BY DEF TypeOK, Connection, Subscribe, SendSnapshot, Stream, Unsubscribe, CloseChannel

\* The connection of a handler step.
LEMMA SubscribeIs ==
  ASSUME TypeOK, NEW c \in Clients, Subscribe(c)
  PROVE  /\ handler[c] = "out" /\ handler'[c] = "joining" /\ subs' = subs \cup {c}
         /\ snap'[c] = Snapshot(history, Pending, lastState) /\ joinedAt'[c] = uttSeq
         /\ UNCHANGED <<chan, isClosed, viewer, finals>>
BY DEF TypeOK, Subscribe

LEMMA SendSnapshotIs ==
  ASSUME TypeOK, NEW c \in Clients, SendSnapshot(c)
  PROVE  /\ handler[c] = "joining" /\ handler'[c] = "streaming"
         /\ chan'[c] = Append(chan[c], snap[c])
         /\ UNCHANGED <<subs, isClosed, viewer, joinedAt, finals>>
BY DEF TypeOK, SendSnapshot

LEMMA StreamIs ==
  ASSUME TypeOK, NEW c \in Clients, Stream(c)
  PROVE  /\ handler[c] = "streaming" /\ chan[c] # <<>>
         /\ viewer'[c] = Show(viewer[c], Head(chan[c])) /\ chan'[c] = Tail(chan[c])
         /\ UNCHANGED <<subs, isClosed, handler, snap, joinedAt, finals>>
BY DEF TypeOK, Stream

LEMMA UnsubscribeIs ==
  ASSUME TypeOK, NEW c \in Clients, Unsubscribe(c)
  PROVE  /\ handler[c] = "streaming" /\ handler'[c] = "leaving" /\ subs' = subs \ {c}
         /\ viewer'[c] = BlankPage
         /\ UNCHANGED <<chan, isClosed, snap, joinedAt, finals>>
BY DEF TypeOK, Unsubscribe

LEMMA CloseChannelIs ==
  ASSUME TypeOK, NEW c \in Clients, CloseChannel(c)
  PROVE  /\ handler[c] = "leaving" /\ handler'[c] = "gone" /\ isClosed'[c]
         /\ chan'[c] = <<>> /\ finals'[c] = <<>> /\ joinedAt'[c] = 0
         /\ UNCHANGED <<subs, snap, viewer>>
BY DEF TypeOK, CloseChannel

\* A publisher's event is not a snapshot.
LEMMA InHandKind ==
  ASSUME PubInv, NEW p \in Publishers, pub[p].pc # "idle"
  PROVE  pub[p].ev.kind # "snapshot"
BY EventFields DEF PubInv, Publishers

\* A send that reaches a connection is to one that is neither out nor gone,
\* and leaves the others alone.
LEMMA SendReaches ==
  ASSUME TypeOK, PubInv, HandlerInv, NEW p \in Publishers, NEW d \in Clients, Send(p, d)
  PROVE  /\ handler[d] # "out"
         /\ \A c \in Clients : c # d => chan'[c] = chan[c] /\ finals'[c] = finals[c]
         /\ chan'[d] = chan[d] \/ chan'[d] = Append(chan[d], pub[p].ev)
         /\ \/ finals'[d] = finals[d]
            \/ pub[p].ev.kind = "final" /\ finals'[d] = Append(finals[d], pub[p].ev.line)
         /\ handler[d] = "gone" => chan'[d] = chan[d] /\ finals'[d] = finals[d]
<1>1. handler[d] # "out"
  BY SendIs DEF HandlerInv, ConnIs
<1>2. CASE UNCHANGED <<chan, finals>>
  BY <1>1, <1>2
<1>3. CASE chan' = [chan EXCEPT ![d] = Append(@, pub[p].ev)] /\ ~isClosed[d]
  <2>1. \/ finals' = finals
        \/ pub[p].ev.kind = "final" /\ finals' = [finals EXCEPT ![d] = Append(@, pub[p].ev.line)]
    BY <1>3, SendIs
  <2> QED
    BY <1>1, <1>3, <2>1 DEF TypeOK, HandlerInv, ConnIs
<1> QED
  BY <1>2, <1>3, SendIs

LEMMA HandlerParts ==
  HandlerInv <=> \A c \in Clients :
    /\ ConnIs(c)
    /\ handler[c] = "out" => \A p \in Publishers : c \notin pub[p].todo
BY DEF HandlerInv

LEMMA HandlersMove ==
  ASSUME TypeOK, PubInv, [Next]_vars
  PROVE  \A c \in Clients : handler'[c] = "out" => handler[c] = "out"
<1>1. CASE handler' = handler
  BY <1>1
<1>2. ASSUME NEW d \in Clients, Connection(d)
      PROVE  \A c \in Clients : handler'[c] = "out" => handler[c] = "out"
  BY <1>2, OthersStay, SubscribeIs, SendSnapshotIs, StreamIs, UnsubscribeIs, CloseChannelIs
     DEF Connection
<1> QED
  BY <1>1, <1>2, Steps, PublisherFrame, SendFrame DEF vars, connVars

\* A page applies its first event and is blank no more.
LEMMA ShowFirst ==
  ASSUME NEW page \in Pages, NEW ev \in Events
  PROVE  Show(page, ev).first = (IF page.first = "none" THEN ev.kind ELSE page.first)
<1> DEFINE seen == [page EXCEPT !.first = IF @ = "none" THEN ev.kind ELSE @]
<1>0. ev.kind \in {"snapshot", "final", "interim", "status"}
  BY EventFields DEF Events
<1>1. seen.first = (IF page.first = "none" THEN ev.kind ELSE page.first) /\ seen \in Pages
  BY <1>0 DEF Pages
<1>2. \/ Show(page, ev) = [seen EXCEPT !.lines = ev.lines, !.text = ev.text,
                                       !.state = IF ev.state = NoState THEN @ ELSE ev.state]
      \/ Show(page, ev) = [seen EXCEPT !.lines = Append(@, ev.line), !.text = <<>>]
      \/ Show(page, ev) = [seen EXCEPT !.text = ev.text]
      \/ Show(page, ev) = [seen EXCEPT !.state = ev.state]
  BY <1>0 DEF Show
<1> HIDE DEF seen
<1> QED
  BY <1>1, <1>2 DEF Pages

LEMMA HandlerNext == TypeOK /\ PubInv /\ HandlerInv /\ [Next]_vars => HandlerInv'
<1> SUFFICES ASSUME TypeOK, PubInv, HandlerInv, [Next]_vars, NEW c \in Clients PROVE ConnIs(c)'
  <2>1. (HandlerInv <=> \A c \in Clients :
          /\ ConnIs(c)
          /\ handler[c] = "out" => \A p \in Publishers : c \notin pub[p].todo)'
    BY HandlerParts, PTL
  <2> QED
    BY <2>1, TodoNext, HandlersMove DEF HandlerInv, ConnIs
<1> USE HandlerParts
<1>1. CASE UNCHANGED connVars
  BY <1>1 DEF connVars, ConnIs
<1>2. ASSUME NEW p \in Publishers, NEW d \in Clients, Send(p, d) PROVE ConnIs(c)'
  <2>1. UNCHANGED <<subs, isClosed, handler, snap, viewer>>
    BY <1>2, SendFrame
  <2>2. CASE c # d
    BY <1>2, <2>1, <2>2, SendReaches DEF ConnIs
  <2>3. CASE c = d
    <3>1. handler[c] = "joining" => \A i \in DOMAIN chan'[c] : chan'[c][i].kind # "snapshot"
      <4>1. chan[c] \in Seq(Events) /\ pub[p].ev \in Events /\ pub[p].ev.kind # "snapshot"
        BY <1>2, SendIs, InHandKind DEF TypeOK
      <4>2. chan'[c] = chan[c] \/ chan'[c] = Append(chan[c], pub[p].ev)
        BY <1>2, <2>3, SendReaches
      <4>3. Append(chan[c], pub[p].ev) \in Seq(Events)
            /\ \A i \in DOMAIN Append(chan[c], pub[p].ev) :
                 \/ Append(chan[c], pub[p].ev)[i] = pub[p].ev
                 \/ i \in DOMAIN chan[c] /\ Append(chan[c], pub[p].ev)[i] = chan[c][i]
        BY <4>1, AppendKeeps
      <4> QED
        BY <4>1, <4>2, <4>3, SMTT(30) DEF ConnIs
    <3> QED
      BY <1>2, <2>1, <2>3, <3>1, SendReaches DEF ConnIs
  <2> QED
    BY <2>2, <2>3
<1>3. ASSUME NEW d \in Clients, Connection(d), c # d PROVE ConnIs(c)'
  BY <1>3, OthersStay DEF ConnIs
<1>4. CASE Subscribe(c)
  <2>1. Pending \in Text
    BY DEF TypeOK, Pending, Text
  <2>2. snap'[c] \in Events /\ snap'[c].kind = "snapshot"
    BY <1>4, <2>1, SubscribeIs, EventFields, EventTypes DEF TypeOK
  <2>3. chan'[c] = <<>>
    BY <1>4, SubscribeIs DEF HandlerInv, ConnIs
  <2>4. \A i \in DOMAIN chan'[c] : chan'[c][i].kind # "snapshot"
    BY <2>3
  <2> QED
    BY <1>4, <2>2, <2>4, SubscribeIs DEF ConnIs
<1>5. CASE SendSnapshot(c)
  BY <1>5, SendSnapshotIs DEF ConnIs
<1>6. CASE Stream(c)
  <2>1. viewer[c] \in Pages /\ Head(chan[c]) \in Events
    BY <1>6, StreamIs DEF TypeOK
  <2>2. Head(chan[c]).kind # "none"
    BY <2>1, EventFields DEF Events
  <2>3. viewer'[c].first # "none"
    BY <1>6, <2>1, <2>2, ShowFirst, StreamIs
  <2> QED
    BY <1>6, <2>3, StreamIs DEF ConnIs
<1>7. CASE Unsubscribe(c)
  BY <1>7, UnsubscribeIs DEF ConnIs
<1>8. CASE CloseChannel(c)
  BY <1>8, CloseChannelIs DEF ConnIs
<1> QED
  BY <1>1, <1>2, <1>3, <1>4, <1>5, <1>6, <1>7, <1>8, Steps, PublisherFrame DEF vars, Connection

-----------------------------------------------------------------------------
(* The transcript is the speech.                                           *)

\* TranscriptIsTheSpeech, element by element.
WrittenInv ==
  /\ Len(written) = (IF pub["hub"].pc = "onFinal" THEN uttSeq - 1 ELSE uttSeq)
  /\ \A i \in 1..Len(written) : written[i] = i

ClosedInv ==
  /\ Len(closed) = uttSeq
  /\ \A n \in 1..uttSeq : LastWord(n - 1) \in Nat /\ closed[n] # <<>>
                          /\ Follows(closed[n], LastWord(n - 1))
  /\ LastWord(uttSeq) \in Nat
  /\ Follows(committed, LastWord(uttSeq))
  /\ words = LastWord(uttSeq) + Len(committed)

HistoryInv ==
  /\ Len(history) = (IF uttSeq > HistoryLimit THEN HistoryLimit ELSE uttSeq)
  /\ \A i \in 1..Len(history) : history[i] = uttSeq - Len(history) + i

SpeechInv == WrittenInv /\ ClosedInv /\ HistoryInv

LEMMA SpeechInvIsEnough == TypeOK /\ PubInv /\ SpeechInv => TranscriptIsTheSpeech
<1> SUFFICES ASSUME TypeOK, PubInv, SpeechInv PROVE TranscriptIsTheSpeech
  OBVIOUS
<1> DEFINE older == IF uttSeq > HistoryLimit THEN uttSeq - HistoryLimit ELSE 0
<1>0. uttSeq \in Nat /\ written \in Seq(Nat) /\ history \in Seq(Nat)
  BY DEF TypeOK
<1>1. written \o Unwritten = [n \in 1..uttSeq |-> n]
  <2>1. CASE pub["hub"].pc = "onFinal"
    <3>1. Unwritten = <<uttSeq>>
      BY <2>1, EventFields DEF Unwritten, PubInv
    <3>2. Len(written) = uttSeq - 1 /\ \A i \in 1..Len(written) : written[i] = i
      BY <2>1 DEF SpeechInv, WrittenInv
    <3> QED
      BY <1>0, <3>1, <3>2, SMTT(30)
  <2>2. CASE pub["hub"].pc # "onFinal"
    <3>1. Unwritten = <<>>
      BY <2>2 DEF Unwritten
    <3>2. Len(written) = uttSeq /\ \A i \in 1..Len(written) : written[i] = i
      BY <2>2 DEF SpeechInv, WrittenInv
    <3>3. written \o <<>> = written
      BY <1>0
    <3> QED
      BY <1>0, <3>1, <3>2, <3>3
  <2> QED
    BY <2>1, <2>2
<1>2. history = [i \in 1..uttSeq - older |-> older + i]
  <2>1. Len(history) = uttSeq - older /\ older \in Nat /\ uttSeq - older \in Nat
    BY <1>0, HubAssumption DEF SpeechInv, HistoryInv
  <2>2. \A i \in 1..Len(history) : history[i] = uttSeq - Len(history) + i
    BY DEF SpeechInv, HistoryInv
  <2> HIDE DEF older
  <2> QED
    BY <1>0, <2>1, <2>2
<1> QED
  BY <1>1, <1>2 DEF TranscriptIsTheSpeech, SpeechInv, ClosedInv

\* A text that follows word w, and one word more.
LEMMA FollowsOn ==
  ASSUME NEW text \in Text, NEW w \in Nat, Follows(text, w)
  PROVE  /\ text # <<>> => text[Len(text)] = w + Len(text)
         /\ text \o <<w + Len(text) + 1>> \in Text
         /\ text \o <<w + Len(text) + 1>> # <<>>
         /\ Len(text \o <<w + Len(text) + 1>>) = Len(text) + 1
         /\ Follows(text \o <<w + Len(text) + 1>>, w)
<1> DEFINE more == w + Len(text) + 1
<1>1. text \in Seq(Nat) /\ more \in Nat /\ \A i \in 1..Len(text) : text[i] = w + i
  BY DEF Text, Follows
<1>2. text # <<>> => text[Len(text)] = w + Len(text)
  BY <1>1
<1> DEFINE longer == text \o <<more>>
<1> HIDE DEF more
<1>3. /\ longer \in Seq(Nat) /\ longer # <<>> /\ Len(longer) = Len(text) + 1
      /\ longer[Len(text) + 1] = more /\ \A i \in 1..Len(text) : longer[i] = text[i]
  BY <1>1
<1> HIDE DEF longer
<1>4. \A i \in 1..Len(longer) : longer[i] = w + i
  <2> SUFFICES ASSUME NEW i \in 1..Len(text) + 1 PROVE longer[i] = w + i
    BY <1>3
  <2>1. Len(text) \in Nat
    BY <1>1
  <2>2. CASE i = Len(text) + 1
    BY <1>3, <2>1, <2>2 DEF more
  <2>3. CASE i # Len(text) + 1
    <3>1. i \in 1..Len(text)
      BY <2>1, <2>3
    <3> QED
      BY <1>1, <1>3, <3>1
  <2> QED
    BY <2>2, <2>3
<1>5. Follows(longer, w)
  BY <1>3, <1>4 DEF Follows
<1> QED
  BY <1>2, <1>3, <1>5 DEF Text, longer, more

LEMMA TrimIs ==
  ASSUME NEW h \in Seq(Nat)
  PROVE  /\ Len(h) <= HistoryLimit => Trim(h) = h
         /\ Len(h) > HistoryLimit =>
              /\ Len(Trim(h)) = HistoryLimit
              /\ \A i \in 1..HistoryLimit : Trim(h)[i] = h[Len(h) - HistoryLimit + i]
BY HubAssumption DEF Trim

LEMMA HistoryNext ==
  ASSUME TypeOK, HistoryInv, NewLine
  PROVE  HistoryInv'
<1> DEFINE h == Append(history, uttSeq + 1)
<1>1. uttSeq \in Nat /\ history \in Seq(Nat) /\ HistoryLimit \in Nat \ {0}
  BY HubAssumption DEF TypeOK
<1>2. /\ h \in Seq(Nat) /\ Len(h) = Len(history) + 1 /\ h[Len(history) + 1] = uttSeq + 1
      /\ \A i \in 1..Len(history) : h[i] = uttSeq - Len(history) + i
  BY <1>1 DEF HistoryInv
<1>3. history' = Trim(h) /\ uttSeq' = uttSeq + 1
  BY DEF NewLine
<1>4. Len(history) = (IF uttSeq > HistoryLimit THEN HistoryLimit ELSE uttSeq)
  BY DEF HistoryInv
<1>5. \A i \in 1..Len(h) : h[i] = uttSeq - Len(history) + i
  BY <1>1, <1>2
<1> HIDE DEF h
<1>6. CASE Len(h) <= HistoryLimit
  BY <1>1, <1>2, <1>3, <1>4, <1>5, <1>6, TrimIs DEF HistoryInv
<1>7. CASE Len(h) > HistoryLimit
  <2>1. Len(history) = HistoryLimit
    BY <1>1, <1>2, <1>4, <1>7
  <2>2. Len(history') = HistoryLimit
        /\ \A i \in 1..HistoryLimit : history'[i] = h[Len(h) - HistoryLimit + i]
    BY <1>2, <1>3, <1>7, TrimIs
  <2>3. \A i \in 1..HistoryLimit : history'[i] = uttSeq + 1 - HistoryLimit + i
    BY <1>1, <1>2, <1>5, <2>1, <2>2
  <2> QED
    BY <1>1, <1>3, <1>4, <2>1, <2>2, <2>3 DEF HistoryInv
<1> QED
  BY <1>1, <1>2, <1>6, <1>7

LEMMA ClosedNext ==
  ASSUME TypeOK, ClosedInv, NewLine \/ Announced \/ NothingSaid
  PROVE  ClosedInv'
<1> DEFINE last == LastWord(uttSeq)
<1>0. /\ uttSeq \in Nat /\ closed \in Seq(Text) /\ committed \in Text /\ words \in Nat
      /\ last \in Nat /\ Follows(committed, last) /\ words = last + Len(committed)
      /\ Len(closed) = uttSeq /\ Len(committed) \in Nat
  BY DEF TypeOK, ClosedInv, Text
<1>1. CASE NewLine
  <2>1. PICK full \in Text :
          /\ full # <<>> /\ closed' = Append(closed, full)
          /\ \/ full = committed /\ words' = words
             \/ full = committed \o <<words + 1>> /\ words' = words + 1
    BY <1>1 DEF NewLine
  <2>2. uttSeq' = uttSeq + 1 /\ committed' = <<>>
    BY <1>1 DEF NewLine
  <2>3. Follows(full, last) /\ full[Len(full)] = words'
    <3>1. CASE full = committed /\ words' = words
      <4> HIDE DEF last
      <4> QED
        BY <1>0, <2>1, <3>1, FollowsOn
    <3>2. CASE full = committed \o <<words + 1>> /\ words' = words + 1
      <4> HIDE DEF last
      <4>1. words + 1 = last + Len(committed) + 1
        BY <1>0
      <4>2. Follows(full, last) /\ Len(full) = Len(committed) + 1
        BY <1>0, <3>2, <4>1, FollowsOn
      <4>3. full[Len(full)] = last + Len(full)
        BY <1>0, <2>1, <4>2, FollowsOn
      <4> QED
        BY <1>0, <3>2, <4>2, <4>3
    <3> QED
      BY <2>1, <3>1, <3>2
  <2>4. /\ Len(closed') = uttSeq + 1 /\ closed'[uttSeq + 1] = full
        /\ \A n \in 1..uttSeq : closed'[n] = closed[n]
    <3> HIDE DEF last
    <3> QED
      BY <1>0, <2>1
  <2>5. \A n \in 0..uttSeq : LastWord(n)' = LastWord(n)
    <3> HIDE DEF last
    <3> QED
      BY <1>0, <2>4 DEF LastWord
  <2>6. LastWord(uttSeq)' = words' /\ words' \in Nat
    <3> HIDE DEF last
    <3>1. LastWord(uttSeq)' = full[Len(full)]
      BY <1>0, <2>2, <2>4 DEF LastWord
    <3> QED
      BY <1>0, <2>1, <2>3, <3>1
  <2>7. \A n \in 1..uttSeq + 1 : /\ (LastWord(n - 1) \in Nat)' /\ closed'[n] # <<>>
                                 /\ Follows(closed[n], LastWord(n - 1))'
    <3> SUFFICES ASSUME NEW n \in 1..uttSeq + 1
                 PROVE  /\ (LastWord(n - 1) \in Nat)' /\ closed'[n] # <<>>
                        /\ Follows(closed[n], LastWord(n - 1))'
      OBVIOUS
    <3>1. n - 1 \in 0..uttSeq
      BY <1>0
    <3>2. LastWord(n - 1)' = LastWord(n - 1)
      BY <2>5, <3>1
    <3>3. CASE n = uttSeq + 1
      <4>1. n - 1 = uttSeq
        BY <1>0, <3>3
      <4> QED
        BY <1>0, <2>1, <2>3, <2>4, <3>2, <3>3, <4>1 DEF Follows
    <3>4. CASE n # uttSeq + 1
      <4>1. n \in 1..uttSeq
        BY <1>0, <3>4
      <4> QED
        BY <2>4, <3>2, <4>1 DEF ClosedInv, Follows
    <3> QED
      BY <3>3, <3>4
  <2>8. Follows(committed, LastWord(uttSeq))' /\ Len(committed') = 0
    BY <2>2 DEF Follows
  <2>9. words' = LastWord(uttSeq)' + Len(committed')
    <3>0. words' \in Nat
      BY <2>6, Zenon
    <3>1. \A n \in Nat : n + 0 = n
      OBVIOUS
    <3>2. words' = words' + 0
      BY <3>0, <3>1, Zenon
    <3> QED
      BY <2>6, <2>8, <3>2, Zenon
  <2> QED
    BY <2>2, <2>4, <2>6, <2>7, <2>8, <2>9 DEF ClosedInv
<1>2. CASE uttSeq' = uttSeq /\ closed' = closed /\ committed' = committed /\ words' = words
  BY <1>2 DEF ClosedInv, LastWord, Follows
<1>3. CASE /\ uttSeq' = uttSeq /\ closed' = closed
           /\ committed' = committed \o <<words + 1>> /\ words' = words + 1
  <2>1. LastWord(uttSeq)' = last /\ \A n \in 1..uttSeq : LastWord(n - 1)' = LastWord(n - 1)
    BY <1>3 DEF LastWord
  <2>5. last \in Nat
    BY DEF ClosedInv
  <2>8. LastWord(uttSeq)' = last
    BY <2>1
  <2> HIDE DEF last
  <2>2. words + 1 = last + Len(committed) + 1
    BY <1>0
  <2>3. Follows(committed', last) /\ Len(committed') = Len(committed) + 1
    BY <1>0, <1>3, <2>2, FollowsOn
  <2>4. words' = last + Len(committed')
    BY <1>0, <1>3, <2>2, <2>3
  <2>6. Len(closed') = uttSeq'
    BY <1>3 DEF ClosedInv
  <2>7. \A n \in 1..uttSeq' : LastWord(n - 1)' \in Nat /\ closed'[n] # <<>>
                             /\ Follows(closed'[n], LastWord(n - 1)')
    BY <1>3, <2>1 DEF ClosedInv
  <2> QED
    BY <2>3, <2>4, <2>5, <2>6, <2>7, <2>8, Zenon DEF ClosedInv
<1> QED
  BY <1>1, <1>2, <1>3 DEF Announced, NothingSaid

LEMMA WrittenNext ==
  ASSUME TypeOK, PubInv, WrittenInv, NewLine \/ Announced \/ NothingSaid,
         pub["hub"].pc = "idle", written' = written
  PROVE  WrittenInv'
BY BroadcastingIs DEF TypeOK, WrittenInv, NewLine, Announced, NothingSaid

LEMMA OnFinalWrites ==
  ASSUME TypeOK, PubInv, WrittenInv, OnFinal
  PROVE  WrittenInv'
<1>1. /\ uttSeq \in Nat /\ uttSeq' = uttSeq /\ written \in Seq(Nat)
      /\ Len(written) = uttSeq - 1 /\ \A i \in 1..Len(written) : written[i] = i
      /\ pub'["hub"].pc # "onFinal"
  BY OnFinalIs DEF uttVars, TypeOK, WrittenInv
<1>2. written' = Append(written, uttSeq)
  BY OnFinalIs, EventFields DEF PubInv
<1> QED
  BY <1>1, <1>2 DEF WrittenInv

\* The step of the whole.
LEMMA SpeechNext == TypeOK /\ PubInv /\ SpeechInv /\ [Next]_vars => SpeechInv'
<1> SUFFICES ASSUME TypeOK, PubInv, SpeechInv, [Next]_vars PROVE SpeechInv'
  OBVIOUS
<1>1. CASE Publish \/ Flush
  <2>1. WrittenInv' /\ ClosedInv'
    BY <1>1, PublishIs, WrittenNext, ClosedNext DEF SpeechInv
  <2>2. HistoryInv'
    <3>1. CASE NewLine
      BY <3>1, HistoryNext DEF SpeechInv
    <3>2. CASE uttSeq' = uttSeq /\ history' = history
      BY <3>2 DEF SpeechInv, HistoryInv
    <3> QED
      BY <1>1, <3>1, <3>2, PublishIs DEF Announced, NothingSaid
  <2> QED
    BY <2>1, <2>2 DEF SpeechInv
<1>2. CASE /\ uttSeq' = uttSeq /\ history' = history /\ closed' = closed
           /\ committed' = committed /\ words' = words
  <2>1. ClosedInv' /\ HistoryInv'
    BY <1>2 DEF SpeechInv, ClosedInv, HistoryInv, LastWord, Follows
  <2>2. CASE OnFinal
    BY <2>1, <2>2, OnFinalWrites DEF SpeechInv
  <2>3. CASE /\ written' = written
             /\ pub'["hub"].pc = "onFinal" <=> pub["hub"].pc = "onFinal"
    BY <1>2, <2>1, <2>3 DEF SpeechInv, WrittenInv
  <2>4. ASSUME NEW s \in States, PublishStatus(s) PROVE SpeechInv'
    BY <2>3, <2>4, PublishStatusIs
  <2>5. ASSUME NEW p \in Publishers, Targets(p) PROVE SpeechInv'
    BY <2>3, <2>5, TargetsIs, IdleIs DEF Publishers
  <2>6. ASSUME NEW p \in Publishers, NEW c \in Clients, Send(p, c) PROVE SpeechInv'
    BY <2>3, <2>6, SenderIs, SendIs, SendFrame, IdleIs DEF Publishers
  <2>7. ASSUME NEW c \in Clients, Connection(c) PROVE SpeechInv'
    BY <2>3, <2>7, ConnFrame
  <2> QED
    BY <1>1, <2>2, <2>3, <2>4, <2>5, <2>6, <2>7, Steps DEF vars
<1>3. \/ Publish \/ Flush
      \/ /\ uttSeq' = uttSeq /\ history' = history /\ closed' = closed
         /\ committed' = committed /\ words' = words
  <2>1. UNCHANGED uttVars => /\ uttSeq' = uttSeq /\ history' = history /\ closed' = closed
                             /\ committed' = committed /\ words' = words
    BY DEF uttVars
  <2> QED
    BY <2>1, Steps, OnFinalIs, PublishStatusIs, TargetsIs, SendFrame, ConnFrame DEF vars
<1> QED
  BY <1>1, <1>2, <1>3

-----------------------------------------------------------------------------
(* Lines in order.                                                         *)

\* The hub's goroutine has its newest line still to offer to c.
Held(c) ==
  /\ pub["hub"].pc # "idle" /\ pub["hub"].ev.kind = "final"
  /\ pub["hub"].pc = "send" => c \in pub["hub"].todo

LEMMA InHandIs ==
  ASSUME PubInv, NEW c
  PROVE  InHand(pub["hub"], c) = IF Held(c) THEN {uttSeq} ELSE {}
<1>1. CASE Held(c)
  <2>1. pub["hub"].ev.line = uttSeq
    BY <1>1, EventFields DEF Held, PubInv
  <2> QED
    BY <1>1, <2>1 DEF Held, InHand
<1>2. CASE ~Held(c)
  BY <1>2 DEF Held, InHand
<1> QED
  BY <1>1, <1>2

LEMMA HeldLine ==
  ASSUME PubInv, pub["hub"].pc # "idle", pub["hub"].ev.kind = "final"
  PROVE  pub["hub"].ev.line = uttSeq
BY EventFields DEF PubInv

\* A transcript: nothing was in hand; a closed line is.
LEMMA PublishHolds ==
  ASSUME TypeOK, PubInv, Publish \/ Flush, NEW c
  PROVE  /\ ~Held(c) /\ finals' = finals /\ joinedAt' = joinedAt /\ subs' = subs
         /\ slowDrops' = slowDrops
         /\ \/ uttSeq' = uttSeq + 1 /\ Held(c)'
            \/ uttSeq' = uttSeq /\ ~Held(c)'
<1>1. ~Held(c) /\ finals' = finals /\ joinedAt' = joinedAt /\ subs' = subs /\ slowDrops' = slowDrops
  BY PublishIs, PublisherFrame DEF Held, connVars
<1>2. CASE NewLine
  BY <1>1, <1>2, EventFields DEF NewLine, Held
<1>3. CASE Announced
  BY <1>1, <1>3, EventFields, BroadcastingIs DEF Announced, Held
<1>4. CASE NothingSaid
  BY <1>1, <1>4 DEF NothingSaid, Held
<1> QED
  BY <1>1, <1>2, <1>3, <1>4, PublishIs

\* A send: by the hub's goroutine of the line in hand to c, of something else,
\* or to somebody else.
LEMMA SendHolds ==
  ASSUME TypeOK, PubInv, NEW p \in Publishers, NEW d \in Clients, Send(p, d),
         NEW c \in Clients
  PROVE  /\ uttSeq' = uttSeq /\ joinedAt' = joinedAt /\ subs' = subs
         /\ \/ finals'[c] = finals[c] /\ (Held(c)' <=> Held(c)) /\ slowDrops' \in {slowDrops, slowDrops + 1}
            \/ /\ Held(c) /\ ~Held(c)'
               /\ \/ finals'[c] = Append(finals[c], uttSeq) /\ slowDrops' = slowDrops
                  \/ finals'[c] = finals[c] /\ slowDrops' = slowDrops + 1
<1>0. uttSeq' = uttSeq /\ joinedAt' = joinedAt /\ subs' = subs
  BY SendFrame DEF uttVars
<1>1. CASE pub' = pub /\ UNCHANGED <<finals, slowDrops>>
  BY <1>0, <1>1 DEF Held
<1>2. CASE /\ Becomes(p, Sent(p, d))
           /\ \/ UNCHANGED <<finals, slowDrops>> /\ pub[p].ev.kind # "final"
              \/ finals' = finals /\ slowDrops' = slowDrops + 1
              \/ /\ slowDrops' = slowDrops /\ pub[p].ev.kind = "final"
                 /\ finals' = [finals EXCEPT ![d] = Append(@, pub[p].ev.line)]
  <2>1. /\ pub[p].pc = "send" /\ d \in pub[p].todo
        /\ \A q \in Publishers : q # p => pub'[q] = pub[q]
        /\ \/ pub'[p] = Idle /\ pub[p].todo = {d}
           \/ /\ pub'[p].pc = "send" /\ pub'[p].ev = pub[p].ev
              /\ pub'[p].todo = pub[p].todo \ {d} /\ pub'[p].todo # {}
    <3>1. pub[p].pc = "send" /\ d \in pub[p].todo
      BY SendIs
    <3>2. Sent(p, d) \in PubTypes /\ PubOK
      BY <3>1, SentIs, TypeParts
    <3>3. pub'[p] = Sent(p, d) /\ \A q \in Publishers : q # p => pub'[q] = pub[q]
      BY <1>2, <3>2, BecomesIs
    <3> QED
      BY <3>1, <3>3, SentIs
  <2>2. finals'[c] = finals[c] \/ c = d
    BY <1>2 DEF TypeOK
  <2>3. CASE p = "status"
    <3>1. pub[p].ev.kind # "final"
      BY <2>1, <2>3, EventFields DEF PubInv
    <3> QED
      BY <1>0, <1>2, <2>1, <2>3, <3>1 DEF Held, Publishers
  <2>4. CASE p = "hub" /\ c # d
    BY <1>0, <1>2, <2>1, <2>2, <2>4, IdleIs DEF Held
  <2>5. CASE p = "hub" /\ c = d
    <3>1. CASE pub[p].ev.kind # "final"
      BY <1>0, <1>2, <2>1, <2>5, <3>1, IdleIs DEF Held
    <3>2. CASE pub[p].ev.kind = "final"
      <4>1. Held(c) /\ ~Held(c)' /\ pub[p].ev.line = uttSeq
        BY <2>1, <2>5, <3>2, IdleIs, HeldLine DEF Held
      <4> QED
        BY <1>0, <1>2, <2>5, <3>2, <4>1 DEF TypeOK
    <3> QED
      BY <3>1, <3>2
  <2> QED
    BY <2>3, <2>4, <2>5 DEF Publishers
<1> QED
  BY <1>1, <1>2, SendIs

\* The other steps of a publisher.
LEMMA OthersHold ==
  ASSUME TypeOK, PubInv,
         \/ OnFinal
         \/ (\E s \in States : PublishStatus(s)) \/ (\E p \in Publishers : Targets(p)),
         NEW c
  PROVE  /\ uttSeq' = uttSeq /\ UNCHANGED connVars /\ slowDrops' = slowDrops
         /\ Held(c)' => Held(c)
         /\ c \in subs => (Held(c)' <=> Held(c))
<1>1. CASE OnFinal
  BY <1>1, OnFinalIs DEF Held, uttVars
<1>2. ASSUME NEW s \in States, PublishStatus(s)
      PROVE  /\ uttSeq' = uttSeq /\ UNCHANGED connVars /\ slowDrops' = slowDrops
             /\ Held(c)' <=> Held(c)
  BY <1>2, PublishStatusIs DEF Held, uttVars
<1>3. ASSUME NEW p \in Publishers, Targets(p)
      PROVE  /\ uttSeq' = uttSeq /\ UNCHANGED connVars /\ slowDrops' = slowDrops
             /\ Held(c)' => Held(c)
             /\ c \in subs => (Held(c)' <=> Held(c))
  BY <1>3, TargetsIs, IdleIs DEF Held, uttVars, Publishers
<1> QED
  BY <1>1, <1>2, <1>3

OrderedAt(c) ==
  /\ \A i \in DOMAIN finals[c] : finals[c][i] <= uttSeq
  /\ Held(c) => \A i \in DOMAIN finals[c] : finals[c][i] < uttSeq
  /\ \A i, j \in DOMAIN finals[c] : i < j => finals[c][i] < finals[c][j]

LEMMA OrderParts ==
  PubInv => (OrderInv /\ LinesInOrder <=> \A c \in Clients : OrderedAt(c))
BY InHandIs DEF OrderInv, LinesInOrder, OrderedAt

LEMMA OrderNext ==
  TypeOK /\ PubInv /\ HandlerInv /\ OrderInv /\ LinesInOrder /\ [Next]_vars
    => OrderInv' /\ LinesInOrder'
<1> SUFFICES ASSUME TypeOK, PubInv, HandlerInv, OrderInv, LinesInOrder, [Next]_vars,
                    NEW c \in Clients
             PROVE  OrderedAt(c)'
  <2>1. (PubInv => (OrderInv /\ LinesInOrder <=> \A c \in Clients : OrderedAt(c)))'
    BY OrderParts, PTL
  <2> QED
    BY <2>1, PubNext
<1>0. OrderedAt(c) /\ uttSeq \in Nat /\ finals[c] \in Seq(Nat)
  BY OrderParts DEF TypeOK
<1>1. CASE finals'[c] = finals[c] /\ uttSeq' = uttSeq /\ (Held(c)' => Held(c))
  BY <1>0, <1>1 DEF OrderedAt
<1>2. CASE finals'[c] = finals[c] /\ uttSeq' = uttSeq + 1
  BY <1>0, <1>2 DEF OrderedAt
<1>3. CASE finals'[c] = Append(finals[c], uttSeq) /\ uttSeq' = uttSeq /\ Held(c) /\ ~Held(c)'
  BY <1>0, <1>3 DEF OrderedAt
<1>4. CASE finals'[c] = <<>>
  BY <1>4 DEF OrderedAt
<1>5. CASE Publish \/ Flush
  BY <1>1, <1>2, <1>5, PublishHolds
<1>6. CASE OnFinal \/ (\E s \in States : PublishStatus(s)) \/ (\E p \in Publishers : Targets(p))
  BY <1>1, <1>6, OthersHold DEF connVars
<1>7. ASSUME NEW p \in Publishers, NEW d \in Clients, Send(p, d) PROVE OrderedAt(c)'
  BY <1>1, <1>3, <1>7, SendHolds
<1>8. ASSUME NEW d \in Clients, Connection(d) PROVE OrderedAt(c)'
  <2>1. uttSeq' = uttSeq /\ (Held(c)' <=> Held(c))
    BY <1>8, ConnFrame DEF uttVars, Held
  <2>2. finals'[c] = finals[c] \/ finals'[c] = <<>>
    BY <1>8, OthersStay, SubscribeIs, SendSnapshotIs, StreamIs, UnsubscribeIs, CloseChannelIs
       DEF Connection
  <2> QED
    BY <1>1, <1>4, <2>1, <2>2
<1>9. CASE UNCHANGED vars
  BY <1>1, <1>9 DEF vars, uttVars, connVars, Held
<1> QED
  BY <1>5, <1>6, <1>7, <1>8, <1>9, Steps

-----------------------------------------------------------------------------
(* Missed lines.                                                           *)

LEMMA BoundKept ==
  ASSUME NEW A, NEW B, IsFiniteSet(B), NEW n \in Nat, Cardinality(B) <= n, NEW x
  PROVE  /\ A \subseteq B => Cardinality(A) <= n
         /\ A \subseteq B \cup {x} => Cardinality(A) <= n + 1
<1>1. Cardinality(B) \in Nat
  BY FS_CardinalityType
<1>2. ASSUME A \subseteq B PROVE Cardinality(A) <= n
  <2>1. Cardinality(A) <= Cardinality(B) /\ IsFiniteSet(A)
    BY <1>2, FS_Subset
  <2>2. Cardinality(A) \in Nat
    BY <2>1, FS_CardinalityType
  <2> QED
    BY <1>1, <2>1, <2>2
<1>3. ASSUME A \subseteq B \cup {x} PROVE Cardinality(A) <= n + 1
  <2>1. IsFiniteSet(B \cup {x}) /\ Cardinality(B \cup {x}) <= n + 1
    BY <1>1, FS_AddElement
  <2>2. Cardinality(A) <= Cardinality(B \cup {x}) /\ IsFiniteSet(A)
    BY <1>3, <2>1, FS_Subset
  <2>3. Cardinality(A) \in Nat /\ Cardinality(B \cup {x}) \in Nat
    BY <2>1, <2>2, FS_CardinalityType
  <2> QED
    BY <2>1, <2>2, <2>3
<1> QED
  BY <1>2, <1>3

LEMMA MissedFinite == TypeOK => \A c \in Clients : IsFiniteSet(Missed(c))
<1> SUFFICES ASSUME TypeOK, NEW c \in Clients PROVE IsFiniteSet(Missed(c))
  OBVIOUS
<1>1. joinedAt[c] + 1 \in Int /\ uttSeq \in Int
  BY DEF TypeOK
<1>2. IsFiniteSet(joinedAt[c] + 1 .. uttSeq)
  BY <1>1, FS_Interval
<1> QED
  BY <1>2, FS_Subset DEF Missed

MissedSet(d) ==
  (joinedAt[d] + 1 .. uttSeq) \ ({finals[d][i] : i \in DOMAIN finals[d]}
                                 \cup (IF Held(d) THEN {uttSeq} ELSE {}))

LEMMA MissedIs ==
  PubInv => \A d \in Clients : Missed(d) = MissedSet(d)
BY InHandIs DEF Missed, MissedSet

\* What a step does to the lines a registered browser has missed.
LEMMA MissedNext ==
  ASSUME TypeOK, PubInv, HandlerInv, [Next]_vars, NEW c \in subs'
  PROVE  \/ Missed(c)' = {} /\ slowDrops' = slowDrops
         \/ /\ c \in subs
            /\ \/ Missed(c)' \subseteq Missed(c) /\ slowDrops' \in {slowDrops, slowDrops + 1}
               \/ Missed(c)' \subseteq Missed(c) \cup {uttSeq} /\ slowDrops' = slowDrops + 1
<1> DEFINE Goal ==
      \/ Missed(c)' = {} /\ slowDrops' = slowDrops
      \/ /\ c \in subs
         /\ \/ Missed(c)' \subseteq Missed(c) /\ slowDrops' \in {slowDrops, slowDrops + 1}
            \/ Missed(c)' \subseteq Missed(c) \cup {uttSeq} /\ slowDrops' = slowDrops + 1
<1>0. PubInv' /\ uttSeq \in Nat /\ c \in Clients
  BY PubNext, TypeNext DEF TypeOK
<1>1. joinedAt[c] \in Nat /\ finals[c] \in Seq(Nat)
  BY <1>0 DEF TypeOK
<1>2. Missed(c)' = (joinedAt'[c] + 1 .. uttSeq')
                     \ ({finals'[c][i] : i \in DOMAIN finals'[c]}
                         \cup (IF Held(c)' THEN {uttSeq'} ELSE {}))
  <2>1. (PubInv => \A d \in Clients : Missed(d) = MissedSet(d))'
    BY MissedIs, PTL
  <2> QED
    BY <1>0, <2>1 DEF MissedSet
<1>3. Missed(c) = (joinedAt[c] + 1 .. uttSeq)
                     \ ({finals[c][i] : i \in DOMAIN finals[c]}
                         \cup (IF Held(c) THEN {uttSeq} ELSE {}))
  BY <1>0, MissedIs DEF MissedSet
<1>4. CASE Publish \/ Flush
  <2>1. c \in subs /\ ~Held(c) /\ finals' = finals /\ joinedAt' = joinedAt /\ slowDrops' = slowDrops
    BY <1>4, PublishHolds
  <2>2. CASE uttSeq' = uttSeq + 1 /\ Held(c)'
    <3>1. Missed(c)' \subseteq Missed(c)
      BY <1>0, <1>1, <1>2, <1>3, <2>1, <2>2
    <3> QED
      BY <2>1, <3>1
  <2>3. CASE uttSeq' = uttSeq /\ ~Held(c)'
    BY <1>2, <1>3, <2>1, <2>3
  <2> QED
    BY <1>4, <2>2, <2>3, PublishHolds
<1>5. CASE /\ uttSeq' = uttSeq /\ joinedAt'[c] = joinedAt[c] /\ finals'[c] = finals[c]
           /\ c \in subs /\ (Held(c)' <=> Held(c)) /\ slowDrops' \in {slowDrops, slowDrops + 1}
  BY <1>2, <1>3, <1>5
<1>6. CASE OnFinal \/ (\E s \in States : PublishStatus(s)) \/ (\E p \in Publishers : Targets(p))
  <2>1. uttSeq' = uttSeq /\ UNCHANGED connVars /\ slowDrops' = slowDrops
    BY <1>6, OthersHold
  <2>2. c \in subs
    BY <2>1 DEF connVars
  <2>3. Held(c)' <=> Held(c)
    BY <1>6, <2>2, OthersHold
  <2> QED
    BY <1>5, <2>1, <2>2, <2>3 DEF connVars
<1>7. ASSUME NEW p \in Publishers, NEW d \in Clients, Send(p, d) PROVE Goal
  <2>1. uttSeq' = uttSeq /\ joinedAt' = joinedAt /\ c \in subs
    BY <1>0, <1>7, SendHolds
  <2>2. CASE finals'[c] = finals[c] /\ (Held(c)' <=> Held(c)) /\ slowDrops' \in {slowDrops, slowDrops + 1}
    BY <1>5, <2>1, <2>2
  <2>3. CASE /\ Held(c) /\ ~Held(c)' /\ finals'[c] = Append(finals[c], uttSeq) /\ slowDrops' = slowDrops
    <3>1. /\ DOMAIN finals'[c] = DOMAIN finals[c] \cup {Len(finals[c]) + 1}
          /\ \A i \in DOMAIN finals[c] : finals'[c][i] = finals[c][i]
          /\ finals'[c][Len(finals[c]) + 1] = uttSeq
      BY <1>0, <1>1, <2>3, AppendKeeps
    <3>2. Missed(c)' \subseteq Missed(c)
      BY <1>2, <1>3, <2>1, <2>3, <3>1
    <3> QED
      BY <2>1, <2>3, <3>2
  <2>4. CASE /\ Held(c) /\ ~Held(c)' /\ finals'[c] = finals[c] /\ slowDrops' = slowDrops + 1
    <3>1. Missed(c)' \subseteq Missed(c) \cup {uttSeq}
      BY <1>2, <1>3, <2>1, <2>4
    <3> QED
      BY <2>1, <2>4, <3>1
  <2> QED
    BY <1>0, <1>7, <2>2, <2>3, <2>4, SendHolds
<1>8. ASSUME NEW d \in Clients, Connection(d) PROVE Goal
  <2>1. uttSeq' = uttSeq /\ (Held(c)' <=> Held(c)) /\ slowDrops' = slowDrops
    BY <1>8, ConnFrame DEF uttVars, Held
  <2>2. CASE c # d
    BY <1>0, <1>5, <1>8, <2>1, <2>2, OthersStay
  <2>3. CASE c = d /\ Subscribe(c)
    <3>1. joinedAt'[c] = uttSeq
      BY <1>0, <2>3, SubscribeIs
    <3>2. Missed(c)' = {}
      BY <1>0, <1>2, <2>1, <3>1
    <3> QED
      BY <2>1, <3>2
  <2>4. CASE c = d /\ (SendSnapshot(c) \/ Stream(c))
    <3>1. c \in subs /\ joinedAt' = joinedAt /\ finals' = finals
      BY <1>0, <2>4, SendSnapshotIs, StreamIs
    <3> QED
      BY <1>5, <2>1, <3>1
  <2>5. CASE c = d /\ Unsubscribe(c)
    BY <1>0, <2>5, UnsubscribeIs
  <2>6. CASE c = d /\ CloseChannel(c)
    BY <1>0, <2>6, CloseChannelIs DEF HandlerInv, ConnIs
  <2> QED
    BY <1>8, <2>2, <2>3, <2>4, <2>5, <2>6 DEF Connection
<1>9. CASE UNCHANGED vars
  BY <1>5, <1>9 DEF vars, uttVars, connVars, Held
<1> QED
  BY <1>4, <1>6, <1>7, <1>8, <1>9, Steps

LEMMA MissesNext ==
  TypeOK /\ PubInv /\ HandlerInv /\ MissesAreCounted /\ [Next]_vars => MissesAreCounted'
<1> SUFFICES ASSUME TypeOK, PubInv, HandlerInv, MissesAreCounted, [Next]_vars, NEW c \in subs'
             PROVE  Cardinality(Missed(c)') <= slowDrops'
  BY DEF MissesAreCounted
<1>0. slowDrops \in Nat /\ subs \in SUBSET Clients
  BY DEF TypeOK
<1>1. CASE Missed(c)' = {} /\ slowDrops' = slowDrops
  <2>1. Cardinality(Missed(c)') = 0
    BY <1>1, FS_EmptySet
  <2> QED
    BY <1>0, <1>1, <2>1
<1>2. c \in subs => IsFiniteSet(Missed(c)) /\ Cardinality(Missed(c)) <= slowDrops
  BY <1>0, MissedFinite DEF MissesAreCounted
<1>3. CASE c \in subs /\ Missed(c)' \subseteq Missed(c) /\ slowDrops' \in {slowDrops, slowDrops + 1}
  <2>1. Cardinality(Missed(c)') <= slowDrops /\ Cardinality(Missed(c)') \in Nat
    BY <1>0, <1>2, <1>3, BoundKept, FS_Subset, FS_CardinalityType
  <2> QED
    BY <1>0, <1>3, <2>1
<1>4. CASE c \in subs /\ Missed(c)' \subseteq Missed(c) \cup {uttSeq} /\ slowDrops' = slowDrops + 1
  BY <1>0, <1>2, <1>4, BoundKept
<1> QED
  BY <1>1, <1>3, <1>4, MissedNext

-----------------------------------------------------------------------------
(* What is on its way to a page.                                           *)

\* Arrivals under the three things that happen to what is on the way.
LEMMA ArrivesLast ==
  ASSUME NEW S, NEW s \in Seq(S), NEW e \in S, NEW G, NEW B, NEW v, NEW V, e \in G
  PROVE  Arrives(Append(s, e), G, B, v, V)
<1>1. /\ DOMAIN Append(s, e) = DOMAIN s \cup {Len(s) + 1}
      /\ Append(s, e)[Len(s) + 1] = e
      /\ \A i \in DOMAIN s : i < Len(s) + 1
  BY AppendKeeps
<1>2. \A j \in DOMAIN Append(s, e) : ~(j > Len(s) + 1)
  BY <1>1
<1> QED
  BY <1>1, <1>2 DEF Arrives

LEMMA ArrivesStill ==
  ASSUME NEW S, NEW s \in Seq(S), NEW e \in S, NEW G, NEW B, NEW v, NEW V, e \notin B,
         Arrives(s, G, B, v, V)
  PROVE  Arrives(Append(s, e), G, B, v, V)
<1>1. /\ DOMAIN Append(s, e) = DOMAIN s \cup {Len(s) + 1}
      /\ Append(s, e)[Len(s) + 1] = e
      /\ \A i \in DOMAIN s : Append(s, e)[i] = s[i]
  BY AppendKeeps
<1> QED
  BY <1>1 DEF Arrives

LEMMA ArrivesOneLess ==
  ASSUME NEW S, NEW s \in Seq(S), s # <<>>, NEW G, NEW B, NEW v, NEW w, NEW V,
         Arrives(s, G, B, v, V),
         Head(s) \in G => w \in V,
         Head(s) \notin B => w = v
  PROVE  Arrives(Tail(s), G, B, w, V)
<1>1. /\ Head(s) = s[1] /\ 1 \in DOMAIN s
      /\ \A i \in DOMAIN Tail(s) : i + 1 \in DOMAIN s /\ Tail(s)[i] = s[i + 1]
      /\ \A i \in DOMAIN s : i # 1 => i - 1 \in DOMAIN Tail(s) /\ Tail(s)[i - 1] = s[i]
      /\ DOMAIN s \subseteq Nat \ {0} /\ DOMAIN Tail(s) \subseteq Nat \ {0}
  BY TailShifts
<1>2. CASE \E i \in DOMAIN s : s[i] \in G /\ \A j \in DOMAIN s : j > i => s[j] \notin B
  <2>1. PICK i \in DOMAIN s : s[i] \in G /\ \A j \in DOMAIN s : j > i => s[j] \notin B
    BY <1>2
  <2>2. CASE i = 1
    <3>1. \A j \in DOMAIN Tail(s) : j + 1 > 1
      BY <1>1
    <3>2. \A j \in DOMAIN Tail(s) : Tail(s)[j] \notin B
      BY <1>1, <2>1, <2>2, <3>1
    <3> QED
      BY <1>1, <2>1, <2>2, <3>2 DEF Arrives
  <2>3. CASE i # 1
    <3>1. i - 1 \in DOMAIN Tail(s) /\ Tail(s)[i - 1] \in G
      BY <1>1, <2>1, <2>3
    <3>2. \A j \in DOMAIN Tail(s) : j > i - 1 => j + 1 > i
      BY <1>1
    <3>3. \A j \in DOMAIN Tail(s) : j > i - 1 => Tail(s)[j] \notin B
      BY <1>1, <2>1, <3>2
    <3> QED
      BY <3>1, <3>3 DEF Arrives
  <2> QED
    BY <2>2, <2>3
<1>3. CASE v \in V /\ \A j \in DOMAIN s : s[j] \notin B
  BY <1>1, <1>3 DEF Arrives
<1> QED
  BY <1>2, <1>3 DEF Arrives

LEMMA ArrivesMore ==
  ASSUME NEW s, NEW G, NEW H, NEW B, NEW v, NEW V, NEW W,
         Arrives(s, G, B, v, V), G \subseteq H, V \subseteq W
  PROVE  Arrives(s, H, B, v, W)
BY DEF Arrives

\* A page with nothing on the way shows what it shows.
LEMMA ArrivedIs ==
  ASSUME NEW s, NEW G, NEW B, NEW v, NEW V, s = <<>>, Arrives(s, G, B, v, V)
  PROVE  v \in V
BY DEF Arrives

\* Nothing changes on the way to c, and nobody owes it less.
LEMMA PageStays ==
  ASSUME TypeOK, PubInv, NEW c \in Clients, PageAt(c),
         Coming(c)' = Coming(c), viewer'[c] = viewer[c],
         history' = history, lastState' = lastState, announced' = announced,
         Pending' = Pending \/ Pending' = <<>>,
         \A p \in Publishers : Owes(p, c) => Owes(p, c)' /\ pub'[p].ev = pub[p].ev
  PROVE  PageAt(c)'
<1>1. {Pending, announced} \subseteq {Pending', announced'}
  BY DEF PubInv
<1>2. RightText \subseteq RightText' /\ TextShown' = TextShown
      /\ RightState' = RightState /\ StateShown' = StateShown
  BY <1>1 DEF RightText, RightState, TextShown, StateShown
<1>3. TextArrives(c)'
  <2>1. CASE Owes("hub", c)
    BY <2>1 DEF TextArrives, Publishers
  <2>2. CASE Arrives(Coming(c), RightText, TextShown, viewer[c].text, {Pending, announced})
    <3>1. Arrives(Coming(c), RightText', TextShown, viewer[c].text, {Pending', announced'})
      BY <1>1, <1>2, <2>2, ArrivesMore
    <3> QED
      BY <1>2, <3>1 DEF TextArrives
  <2> QED
    BY <2>1, <2>2 DEF PageAt, TextArrives
<1>4. StateArrives(c)'
  BY <1>2 DEF PageAt, StateArrives, Publishers
<1>5. LinesArrive(c)' /\ SnapshotFirst(c)'
  BY DEF PageAt, LinesArrive, LineArrives, SnapshotFirst, Publishers
<1> QED
  BY <1>3, <1>4, <1>5 DEF PageAt

-----------------------------------------------------------------------------
(* A page at a transcript and at a send.                                   *)

\* A transcript is owed to every page, and so is the line it closes.
LEMMA PagePublish ==
  ASSUME TypeOK, PubInv, HistoryInv, NEW c \in Clients, Publish \/ Flush, PageAt(c)
  PROVE  PageAt(c)'
<1>0. /\ pub["hub"].pc = "idle" /\ pub'["status"] = pub["status"] /\ lastState' = lastState
      /\ chan' = chan /\ snap' = snap /\ handler' = handler /\ viewer' = viewer
  BY PublishIs, PublisherFrame DEF connVars
<1>1. Coming(c)' = Coming(c)
  BY <1>0 DEF Coming
<1>2. StateArrives(c)'
  <2>1. RightState' = RightState /\ StateShown' = StateShown
    BY <1>0 DEF RightState, StateShown
  <2>2. Owes("status", c)' <=> Owes("status", c)
    BY <1>0 DEF Owes
  <2> QED
    BY <1>0, <1>1, <2>1, <2>2 DEF PageAt, StateArrives
<1>3. SnapshotFirst(c)'
  BY <1>0, <1>1 DEF PageAt, SnapshotFirst
<1>4. \A n : LineArrives(c, n) => LineArrives(c, n)'
  BY <1>0, <1>1 DEF LineArrives, Owes
<1>5. CASE NewLine
  <2>1. Owes("hub", c)' /\ pub'["hub"].ev = Final(uttSeq + 1)
    BY <1>5 DEF NewLine, Owes
  <2>2. \A i \in DOMAIN history' :
          history'[i] = uttSeq + 1 \/ \E j \in DOMAIN history : history'[i] = history[j]
    <3> DEFINE h == Append(history, uttSeq + 1)
    <3>1. /\ h \in Seq(Nat) /\ Len(h) = Len(history) + 1
          /\ DOMAIN h = DOMAIN history \cup {Len(history) + 1}
          /\ h[Len(history) + 1] = uttSeq + 1 /\ \A i \in DOMAIN history : h[i] = history[i]
      <4>1. history \in Seq(Nat) /\ uttSeq + 1 \in Nat
        BY DEF TypeOK
      <4> QED
        BY <4>1, AppendKeeps
    <3> HIDE DEF h
    <3>2. history' = Trim(h)
      BY <1>5 DEF NewLine, h
    <3>3. \A i \in DOMAIN h : h[i] = uttSeq + 1 \/ \E j \in DOMAIN history : h[i] = history[j]
      BY <3>1
    <3>4. \A i \in DOMAIN Trim(h) : \E k \in DOMAIN h : Trim(h)[i] = h[k]
      <4>1. CASE Len(h) <= HistoryLimit
        BY <3>1, <4>1, TrimIs
      <4>2. CASE Len(h) > HistoryLimit
        <5>1. Trim(h) = SubSeq(h, Len(h) - HistoryLimit + 1, Len(h))
          BY <4>2 DEF Trim
        <5>2. DOMAIN Trim(h) = 1..HistoryLimit
          BY <3>1, <4>2, <5>1, HubAssumption
        <5>3. \A i \in 1..HistoryLimit : Trim(h)[i] = h[Len(h) - HistoryLimit + i]
          BY <3>1, <4>2, TrimIs
        <5>4. \A i \in 1..HistoryLimit : Len(h) - HistoryLimit + i \in 1..Len(h)
          BY <3>1, <4>2, HubAssumption
        <5>5. DOMAIN h = 1..Len(h)
          <6>1. h \in Seq(Nat)
            BY <3>1
          <6> QED
            BY <6>1
        <5> QED
          BY <5>2, <5>3, <5>4, <5>5
      <4> QED
        BY <3>1, <4>1, <4>2, HubAssumption
    <3> QED
      BY <3>2, <3>3, <3>4
  <2>3. \A n : n = uttSeq + 1 => LineArrives(c, n)'
    BY <2>1 DEF LineArrives
  <2>4. LinesArrive(c)'
    <3> SUFFICES ASSUME NEW i \in DOMAIN history', NEW n, n = history'[i]
                 PROVE  LineArrives(c, n)'
      BY DEF LinesArrive, LineArrives
    <3>1. \A j \in DOMAIN history : LineArrives(c, history[j])
      BY DEF PageAt, LinesArrive
    <3>2. n = uttSeq + 1 \/ LineArrives(c, n)
      BY <2>2, <3>1
    <3> QED
      BY <1>4, <2>3, <3>2
  <2> QED
    BY <1>2, <1>3, <2>1, <2>4 DEF PageAt, TextArrives
<1>6. CASE Announced
  <2>1. Owes("hub", c)' /\ history' = history
    BY <1>6, BroadcastingIs DEF Announced, Owes
  <2> QED
    BY <1>2, <1>3, <1>4, <2>1 DEF PageAt, TextArrives, LinesArrive
<1>7. CASE NothingSaid
  <2>1. \A p \in Publishers : Owes(p, c) => Owes(p, c)' /\ pub'[p].ev = pub[p].ev
    BY <1>7 DEF NothingSaid, Owes
  <2> QED
    BY <1>0, <1>1, <1>7, <2>1, PageStays DEF NothingSaid
<1> QED
  BY <1>5, <1>6, <1>7, PublishIs

\* An event joins what is on the way to a page.
LEMMA PageTakes ==
  ASSUME TypeOK, PubInv, NEW c \in Clients, PageAt(c),
         NEW p \in Publishers, pub[p].pc # "idle",
         handler[c] = "streaming", handler'[c] = "streaming",
         chan'[c] = Append(chan[c], pub[p].ev), viewer'[c] = viewer[c],
         UNCHANGED <<uttVars, lastState>>,
         \A q \in Publishers : q # p => pub'[q] = pub[q]
  PROVE  PageAt(c)'
<1> DEFINE ev == pub[p].ev
<1>0. ev \in Events /\ chan[c] \in Seq(Events) /\ ev.kind # "snapshot"
  BY EventInHand, InHandKind DEF TypeOK
<1>1. Coming(c) = chan[c] /\ Coming(c)' = Append(chan[c], ev)
  BY DEF Coming
<1>2. /\ DOMAIN Append(chan[c], ev) = DOMAIN chan[c] \cup {Len(chan[c]) + 1}
      /\ Append(chan[c], ev)[Len(chan[c]) + 1] = ev
      /\ \A i \in DOMAIN chan[c] : Append(chan[c], ev)[i] = chan[c][i]
  BY <1>0, AppendKeeps
<1>3. Pending' = Pending /\ announced' = announced /\ history' = history
  BY DEF Pending, uttVars
<1>4. RightText' = RightText /\ TextShown' = TextShown
      /\ RightState' = RightState /\ StateShown' = StateShown
  BY <1>3 DEF RightText, RightState, TextShown, StateShown
<1>5. p = "hub" => ev \in RightText /\ ev \notin StateShown
  <2>1. CASE p = "hub" /\ ev = Final(uttSeq) /\ announced = <<>> /\ Pending = <<>>
    BY <1>0, <2>1, EventFields DEF RightText, TextShown, StateShown, TextOf
  <2>2. CASE p = "hub" /\ ev = Interim(announced) /\ announced = Pending
    BY <1>0, <2>2, EventFields DEF RightText, TextShown, StateShown, TextOf
  <2> QED
    BY <2>1, <2>2 DEF PubInv
<1>6. p = "status" => ev \in RightState /\ ev \notin TextShown
  BY <1>0, EventFields DEF PubInv, RightState, StateShown, TextShown
<1>7. TextArrives(c)'
  <2>1. CASE p = "hub"
    BY <1>0, <1>1, <1>4, <1>5, <2>1, ArrivesLast DEF TextArrives
  <2>2. CASE p = "status"
    <3>1. CASE Owes("hub", c)
      BY <2>2, <3>1 DEF TextArrives, Owes, Publishers
    <3>2. CASE Arrives(Coming(c), RightText, TextShown, viewer[c].text, {Pending, announced})
      <4>1. Arrives(Append(chan[c], ev), RightText, TextShown, viewer[c].text, {Pending, announced})
        BY <1>0, <1>1, <1>6, <2>2, <3>2, ArrivesStill
      <4> QED
        BY <1>1, <1>3, <1>4, <4>1 DEF TextArrives
    <3> QED
      BY <3>1, <3>2 DEF PageAt, TextArrives
  <2> QED
    BY <2>1, <2>2 DEF Publishers
<1>8. StateArrives(c)'
  <2>1. CASE p = "status"
    BY <1>0, <1>1, <1>4, <1>6, <2>1, ArrivesLast DEF StateArrives
  <2>2. CASE p = "hub"
    <3>1. CASE Owes("status", c)
      BY <2>2, <3>1 DEF StateArrives, Owes, Publishers
    <3>2. CASE Arrives(Coming(c), RightState, StateShown, viewer[c].state, {lastState})
      <4>1. Arrives(Append(chan[c], ev), RightState, StateShown, viewer[c].state, {lastState})
        BY <1>0, <1>1, <1>5, <2>2, <3>2, ArrivesStill
      <4> QED
        BY <1>1, <1>4, <4>1 DEF StateArrives
    <3> QED
      BY <3>1, <3>2 DEF PageAt, StateArrives
  <2> QED
    BY <2>1, <2>2 DEF Publishers
<1>9. SnapshotFirst(c)'
  BY <1>0, <1>1, <1>2 DEF PageAt, SnapshotFirst
<1>10. \A n : LineArrives(c, n) => LineArrives(c, n)'
  <2> SUFFICES ASSUME NEW n, LineArrives(c, n) PROVE LineArrives(c, n)'
    OBVIOUS
  <2>1. CASE Owes("hub", c) /\ pub["hub"].ev = Final(n)
    <3>1. CASE p = "hub"
      <4>1. Carries(ev, n)
        BY <2>1, <3>1, EventFields DEF Carries
      <4> HIDE DEF ev
      <4> QED
        BY <1>1, <1>2, <4>1 DEF LineArrives
    <3>2. CASE p # "hub"
      BY <2>1, <3>2 DEF LineArrives, Owes, Publishers
    <3> QED
      BY <3>1, <3>2
  <2>2. CASE \E i \in DOMAIN Coming(c) : Carries(Coming(c)[i], n)
    BY <1>1, <1>2, <2>2 DEF LineArrives
  <2>3. CASE \E i \in DOMAIN viewer[c].lines : viewer[c].lines[i] = n
    BY <2>3 DEF LineArrives
  <2> QED
    BY <2>1, <2>2, <2>3 DEF LineArrives
<1> QED
  BY <1>3, <1>7, <1>8, <1>9, <1>10 DEF PageAt, LinesArrive

-----------------------------------------------------------------------------
(* A page at its beginning and at an event.                                *)

\* What a page shows of an event it applies.
LEMMA ShowIs ==
  ASSUME NEW page \in Pages, NEW ev \in Events
  PROVE  /\ ev.kind = "snapshot" =>
              /\ Show(page, ev).lines = ev.lines /\ Show(page, ev).text = ev.text
              /\ Show(page, ev).state = (IF ev.state = NoState THEN page.state ELSE ev.state)
         /\ ev.kind = "final" =>
              /\ Show(page, ev).lines = Append(page.lines, ev.line) /\ Show(page, ev).text = <<>>
              /\ Show(page, ev).state = page.state
         /\ ev.kind = "interim" =>
              /\ Show(page, ev).lines = page.lines /\ Show(page, ev).text = ev.text
              /\ Show(page, ev).state = page.state
         /\ ev.kind = "status" =>
              /\ Show(page, ev).lines = page.lines /\ Show(page, ev).text = page.text
              /\ Show(page, ev).state = ev.state
<1> DEFINE seen == [page EXCEPT !.first = IF @ = "none" THEN ev.kind ELSE @]
<1>0. ev.kind \in {"snapshot", "final", "interim", "status"}
  BY EventFields DEF Events
<1>1. seen \in Pages /\ seen.lines = page.lines /\ seen.text = page.text /\ seen.state = page.state
  BY <1>0 DEF Pages
<1>2. /\ ev.kind = "snapshot" =>
           Show(page, ev) = [seen EXCEPT !.lines = ev.lines, !.text = ev.text,
                                         !.state = IF ev.state = NoState THEN @ ELSE ev.state]
      /\ ev.kind = "final" =>
           Show(page, ev) = [seen EXCEPT !.lines = Append(@, ev.line), !.text = <<>>]
      /\ ev.kind = "interim" => Show(page, ev) = [seen EXCEPT !.text = ev.text]
      /\ ev.kind = "status" => Show(page, ev) = [seen EXCEPT !.state = ev.state]
  BY DEF Show
<1> HIDE DEF seen
<1>3. ASSUME ev.kind = "snapshot"
      PROVE  /\ Show(page, ev).lines = ev.lines /\ Show(page, ev).text = ev.text
             /\ Show(page, ev).state = (IF ev.state = NoState THEN page.state ELSE ev.state)
  BY <1>1, <1>2, <1>3 DEF Pages
<1>4. ASSUME ev.kind = "final"
      PROVE  /\ Show(page, ev).lines = Append(page.lines, ev.line) /\ Show(page, ev).text = <<>>
             /\ Show(page, ev).state = page.state
  BY <1>1, <1>2, <1>4, ZenonT(30) DEF Pages
<1>5. ASSUME ev.kind = "interim"
      PROVE  /\ Show(page, ev).lines = page.lines /\ Show(page, ev).text = ev.text
             /\ Show(page, ev).state = page.state
  BY <1>1, <1>2, <1>5 DEF Pages
<1>6. ASSUME ev.kind = "status"
      PROVE  /\ Show(page, ev).lines = page.lines /\ Show(page, ev).text = page.text
             /\ Show(page, ev).state = ev.state
  BY <1>1, <1>2, <1>6 DEF Pages
<1> QED
  BY <1>3, <1>4, <1>5, <1>6, Zenon

\* A new connection is owed nothing but the snapshot it has been given.
LEMMA PageBegins ==
  ASSUME TypeOK, HandlerInv, NEW c \in Clients, Subscribe(c)
  PROVE  PageAt(c)'
<1> DEFINE s == Snapshot(history, Pending, lastState)
<1>0. Pending \in Text
  BY DEF TypeOK, Pending, Text
<1>1. s \in Events /\ s.kind = "snapshot" /\ s.lines = history /\ s.text = Pending /\ s.state = lastState
  BY <1>0, EventTypes, EventFields DEF TypeOK
<1> HIDE DEF s
<1>2. Pending' = Pending /\ announced' = announced /\ history' = history /\ lastState' = lastState
  BY DEF Subscribe, HandlerUnchanged, uttVars, Pending
<1>3. Coming(c)' = <<s>> /\ viewer'[c].first = "none"
  BY SubscribeIs DEF Coming, HandlerInv, ConnIs, BlankPage, s
<1>4. DOMAIN <<s>> = {1} /\ <<s>>[1] = s
  OBVIOUS
<1>5. s \in RightText' /\ s \in RightState'
  BY <1>1, <1>2 DEF RightText, TextShown, RightState, StateShown, TextOf
<1>6. TextArrives(c)' /\ StateArrives(c)'
  BY <1>3, <1>4, <1>5 DEF TextArrives, StateArrives, Arrives
<1>7. LinesArrive(c)'
  BY <1>1, <1>2, <1>3, <1>4 DEF LinesArrive, LineArrives, Carries
<1>8. SnapshotFirst(c)'
  BY <1>3, <1>4 DEF SnapshotFirst
<1> QED
  BY <1>6, <1>7, <1>8 DEF PageAt

\* The page applies the next event.
LEMMA PageShows ==
  ASSUME TypeOK, PubInv, HandlerInv, NEW c \in Clients, PageAt(c), Stream(c)
  PROVE  PageAt(c)'
<1> DEFINE ev == Head(chan[c])
           page == viewer[c]
<1>0. /\ chan[c] \in Seq(Events) /\ chan[c] # <<>> /\ ev \in Events /\ page \in Pages
      /\ ev = chan[c][1] /\ 1 \in DOMAIN chan[c]
  BY StreamIs, TailShifts DEF TypeOK
<1>1. ev.kind \in {"snapshot", "final", "interim", "status"}
  BY <1>0, EventFields DEF Events
<1>2. Coming(c) = chan[c] /\ Coming(c)' = Tail(chan[c]) /\ viewer'[c] = Show(page, ev)
  BY StreamIs DEF Coming
<1>3. /\ Pending' = Pending /\ announced' = announced /\ history' = history
      /\ lastState' = lastState /\ pub' = pub
  BY DEF Stream, HandlerUnchanged, uttVars, Pending
<1>4. RightText' = RightText /\ TextShown' = TextShown
      /\ RightState' = RightState /\ StateShown' = StateShown
  BY <1>3 DEF RightText, RightState, TextShown, StateShown
<1>5. ev.kind = "snapshot" => page = BlankPage
  BY <1>0, <1>2 DEF PageAt, SnapshotFirst, HandlerInv, ConnIs
<1>6. page = BlankPage => page.state = NoState /\ page.lines = <<>>
  BY DEF BlankPage
<1>7. \A p \in Publishers : Owes(p, c)' <=> Owes(p, c)
  BY <1>3 DEF Owes
<1> HIDE DEF ev, page
<1>8. TextArrives(c)'
  <2>1. CASE Owes("hub", c)
    BY <1>7, <2>1 DEF TextArrives, Publishers
  <2>2. CASE Arrives(chan[c], RightText, TextShown, page.text, {Pending, announced})
    <3>1. ev \in RightText => Show(page, ev).text \in {Pending, announced}
      <4>1. ev.kind # "status" => Show(page, ev).text = TextOf(ev)
        BY <1>0, <1>1, ShowIs DEF TextOf
      <4> QED
        BY <4>1 DEF RightText, TextShown
    <3>2. ev \notin TextShown => Show(page, ev).text = page.text
      BY <1>0, <1>1, ShowIs DEF TextShown
    <3>3. Arrives(Tail(chan[c]), RightText, TextShown, Show(page, ev).text, {Pending, announced})
      BY <1>0, <2>2, <3>1, <3>2, ArrivesOneLess DEF ev
    <3> QED
      BY <1>2, <1>3, <1>4, <3>3 DEF TextArrives
  <2> QED
    BY <1>2, <2>1, <2>2 DEF PageAt, TextArrives, page
<1>9. StateArrives(c)'
  <2>1. CASE Owes("status", c)
    BY <1>7, <2>1 DEF StateArrives, Publishers
  <2>2. CASE Arrives(chan[c], RightState, StateShown, page.state, {lastState})
    <3>1. ev \in RightState => Show(page, ev).state \in {lastState}
      BY <1>0, <1>5, <1>6, ShowIs DEF RightState, StateShown
    <3>2. ev \notin StateShown => Show(page, ev).state = page.state
      BY <1>0, <1>1, ShowIs DEF StateShown
    <3>3. Arrives(Tail(chan[c]), RightState, StateShown, Show(page, ev).state, {lastState})
      BY <1>0, <2>2, <3>1, <3>2, ArrivesOneLess DEF ev
    <3> QED
      BY <1>2, <1>3, <1>4, <3>3 DEF StateArrives
  <2> QED
    BY <1>2, <2>1, <2>2 DEF PageAt, StateArrives, page
<1>10. \A n : LineArrives(c, n) => LineArrives(c, n)'
  <2> SUFFICES ASSUME NEW n, LineArrives(c, n) PROVE LineArrives(c, n)'
    OBVIOUS
  <2>1. CASE Owes("hub", c) /\ pub["hub"].ev = Final(n)
    BY <1>3, <1>7, <2>1 DEF LineArrives, Publishers
  <2>2. CASE \E i \in DOMAIN chan[c] : Carries(chan[c][i], n)
    <3>1. PICK i \in DOMAIN chan[c] : Carries(chan[c][i], n)
      BY <2>2
    <3>2. CASE i # 1
      <4>1. i - 1 \in DOMAIN Tail(chan[c]) /\ Tail(chan[c])[i - 1] = chan[c][i]
        BY <1>0, <3>1, <3>2, TailShifts
      <4> QED
        BY <1>2, <3>1, <4>1 DEF LineArrives
    <3>3. CASE i = 1
      <4>1. Carries(ev, n)
        BY <1>0, <3>1, <3>3
      <4>2. CASE ev.kind = "final" /\ ev.line = n
        <5>1. Show(page, ev).lines = Append(page.lines, n) /\ page.lines \in Seq(Nat) /\ n \in Nat
          <6>1. n \in Nat
            BY <1>0, <4>2, EventFields DEF Events
          <6> QED
            BY <1>0, <4>2, <6>1, ShowIs DEF Pages
        <5>2. \E k \in DOMAIN Append(page.lines, n) : Append(page.lines, n)[k] = n
          BY <5>1, AppendKeeps
        <5> QED
          BY <1>2, <5>1, <5>2 DEF LineArrives
      <4>3. CASE ev.kind = "snapshot" /\ \E k \in DOMAIN ev.lines : ev.lines[k] = n
        BY <1>0, <1>2, <4>3, ShowIs DEF LineArrives
      <4> QED
        BY <4>1, <4>2, <4>3 DEF Carries
    <3> QED
      BY <3>2, <3>3
  <2>3. CASE \E i \in DOMAIN page.lines : page.lines[i] = n
    <3>1. PICK i \in DOMAIN page.lines : page.lines[i] = n
      BY <2>3
    <3>2. CASE ev.kind = "snapshot"
      BY <1>5, <1>6, <3>1, <3>2
    <3>3. CASE ev.kind = "final"
      <4>1. ev.line \in Nat /\ page.lines \in Seq(Nat)
        BY <1>0, <3>3, EventFields DEF Events, Pages
      <4>2. i \in DOMAIN Append(page.lines, ev.line) /\ Append(page.lines, ev.line)[i] = n
        BY <3>1, <4>1, AppendKeeps
      <4> QED
        BY <1>0, <1>2, <3>3, <4>2, ShowIs DEF LineArrives
    <3>4. CASE ev.kind \in {"interim", "status"}
      BY <1>0, <1>2, <3>1, <3>4, ShowIs DEF LineArrives
    <3> QED
      BY <1>1, <3>2, <3>3, <3>4
  <2> QED
    BY <1>2, <2>1, <2>2, <2>3 DEF LineArrives, page
<1>11. SnapshotFirst(c)'
  <2>1. \A i \in DOMAIN chan[c] : i # 1 => chan[c][i].kind # "snapshot"
    BY <1>2 DEF PageAt, SnapshotFirst
  <2>2. \A i \in DOMAIN Tail(chan[c]) :
          i + 1 \in DOMAIN chan[c] /\ Tail(chan[c])[i] = chan[c][i + 1] /\ i + 1 # 1
    <3>1. DOMAIN Tail(chan[c]) \subseteq Nat \ {0}
      BY <1>0
    <3>2. \A i \in Nat \ {0} : i + 1 # 1
      OBVIOUS
    <3> QED
      BY <1>0, <3>1, <3>2, TailShifts
  <2> QED
    BY <1>2, <2>1, <2>2 DEF SnapshotFirst
<1> QED
  BY <1>3, <1>8, <1>9, <1>10, <1>11 DEF PageAt, LinesArrive

-----------------------------------------------------------------------------
(* Pages, every step.                                                      *)

\* What a step leaves of a connection that is clean after it.
LEMMA CleanSame ==
  ASSUME NEW c, Clean(c)', subs' = subs, slowDrops' = slowDrops,
         viewer'[c] = viewer[c], handler'[c] = handler[c], chan'[c] = chan[c]
  PROVE  Clean(c)
BY DEF Clean

\* A step that nobody's pages are concerned with.
LEMMA PageUntouched ==
  ASSUME TypeOK, PubInv, NEW c \in Clients, Clean(c) => PageAt(c), Clean(c)',
         subs' = subs, slowDrops' = slowDrops, viewer'[c] = viewer[c],
         handler'[c] = handler[c], chan'[c] = chan[c], snap'[c] = snap[c],
         history' = history, lastState' = lastState, announced' = announced,
         Pending' = Pending,
         \A p \in Publishers : Owes(p, c) => Owes(p, c)' /\ pub'[p].ev = pub[p].ev
  PROVE  PageAt(c)'
<1>1. Clean(c)
  BY CleanSame
<1>2. Coming(c)' = Coming(c)
  BY DEF Coming
<1> QED
  BY <1>1, <1>2, PageStays

\* A send to c, seen from c.
LEMMA PageSend ==
  ASSUME TypeOK, PubInv, HandlerInv, NEW c \in Clients, Clean(c) => PageAt(c), Clean(c)',
         NEW p \in Publishers, NEW d \in Clients, Send(p, d)
  PROVE  PageAt(c)'
<1>0. /\ UNCHANGED <<uttVars, lastState, subs, isClosed, handler, snap, viewer>>
      /\ Pending' = Pending
  BY SendFrame DEF uttVars, Pending
<1>1. slowDrops' = 0 /\ slowDrops \in Nat
  BY DEF Clean, TypeOK
<1>2. CASE UNCHANGED <<pub, chan, slowDrops>>
  BY <1>0, <1>2, PageUntouched DEF Owes, uttVars
<1>3. CASE /\ Becomes(p, Sent(p, d)) /\ slowDrops' = slowDrops
           /\ chan' = [chan EXCEPT ![d] = Append(@, pub[p].ev)]
  <2>1. /\ pub[p].pc = "send" /\ d \in pub[p].todo /\ pub[p].ev \in Events
        /\ \A q \in Publishers : q # p => pub'[q] = pub[q]
        /\ \/ pub'[p] = Idle /\ pub[p].todo = {d}
           \/ /\ pub'[p].pc = "send" /\ pub'[p].ev = pub[p].ev
              /\ pub'[p].todo = pub[p].todo \ {d} /\ pub'[p].todo # {}
    <3>1. pub[p].pc = "send" /\ d \in pub[p].todo /\ pub[p].ev \in Events
      BY SendIs
    <3>2. Sent(p, d) \in PubTypes /\ PubOK
      BY <3>1, SentIs, TypeParts
    <3>3. pub'[p] = Sent(p, d) /\ \A q \in Publishers : q # p => pub'[q] = pub[q]
      BY <1>3, <3>2, BecomesIs
    <3> QED
      BY <3>1, <3>3, SentIs
  <2>2. CASE c # d
    <3>1. chan'[c] = chan[c]
      BY <1>3, <2>2 DEF TypeOK
    <3>2. \A q \in Publishers : Owes(q, c) => Owes(q, c)' /\ pub'[q].ev = pub[q].ev
      BY <2>1, <2>2 DEF Owes
    <3> QED
      BY <1>0, <1>3, <3>1, <3>2, PageUntouched DEF uttVars
  <2>3. CASE c = d
    <3>1. /\ chan'[c] = Append(chan[c], pub[p].ev) /\ chan[c] \in Seq(Events)
          /\ viewer'[c] = viewer[c] /\ handler'[c] = handler[c]
      BY <1>0, <1>3, <2>3 DEF TypeOK
    <3>2. chan'[c] # <<>> /\ (chan[c] = <<>> => Head(chan'[c]) = pub[p].ev)
          /\ (chan[c] # <<>> => Head(chan'[c]) = Head(chan[c]))
      BY <2>1, <3>1
    <3>3. pub[p].ev.kind # "snapshot"
      BY <2>1, InHandKind
    <3>4. handler[c] = "streaming" /\ Clean(c)
      <4>1. c \in subs /\ handler[c] \in {"joining", "streaming"}
        BY <1>0 DEF Clean, HandlerInv, ConnIs
      <4>2. handler[c] # "streaming" => viewer[c].first = "none"
        BY DEF HandlerInv, ConnIs, BlankPage
      <4> QED
        BY <1>1, <1>3, <3>1, <3>2, <3>3, <4>1, <4>2 DEF Clean
    <3> QED
      BY <1>0, <2>1, <3>1, <3>4, PageTakes DEF uttVars
  <2> QED
    BY <2>2, <2>3
<1>4. CASE slowDrops' = slowDrops + 1
  BY <1>1, <1>4
<1> QED
  BY <1>2, <1>3, <1>4, SendIs

LEMMA PageConnection ==
  ASSUME TypeOK, PubInv, HandlerInv, NEW c \in Clients, Clean(c) => PageAt(c), Clean(c)',
         Connection(c)
  PROVE  PageAt(c)'
<1>0. UNCHANGED <<uttVars, lastState, pub, slowDrops>> /\ Pending' = Pending
  BY ConnFrame DEF uttVars, Pending
<1>1. CASE Subscribe(c)
  BY <1>1, PageBegins
<1>2. CASE SendSnapshot(c)
  <2>1. /\ handler[c] = "joining" /\ handler'[c] = "streaming"
        /\ chan'[c] = Append(chan[c], snap[c]) /\ subs' = subs /\ viewer' = viewer
    BY <1>2, SendSnapshotIs
  <2>2. /\ viewer[c].first = "none" /\ snap[c] \in Events /\ chan[c] \in Seq(Events)
        /\ \A i \in DOMAIN chan[c] : chan[c][i].kind # "snapshot"
    BY <2>1 DEF HandlerInv, ConnIs, BlankPage, TypeOK
  <2>3. Head(chan'[c]).kind = "snapshot"
    BY <2>1, <2>2 DEF Clean
  <2>4. chan[c] = <<>>
    <3>1. chan[c] # <<>> => Head(chan'[c]) = chan[c][1] /\ 1 \in DOMAIN chan[c]
      BY <2>1, <2>2
    <3> QED
      BY <2>2, <2>3, <3>1
  <2>5. Clean(c)
    BY <1>0, <2>1, <2>2, <2>4 DEF Clean
  <2>6. chan'[c] = <<snap[c]>>
    BY <2>1, <2>2, <2>4
  <2>7. Coming(c)' = Coming(c)
    BY <2>1, <2>6 DEF Coming
  <2>8. \A p \in Publishers : Owes(p, c) => Owes(p, c)' /\ pub'[p].ev = pub[p].ev
    BY <1>0 DEF Owes
  <2> QED
    BY <1>0, <2>1, <2>5, <2>7, <2>8, PageStays DEF uttVars
<1>3. CASE Stream(c)
  <2>1. /\ handler[c] = "streaming" /\ handler'[c] = "streaming" /\ subs' = subs /\ chan[c] # <<>>
        /\ viewer'[c] = Show(viewer[c], Head(chan[c]))
    BY <1>3, StreamIs
  <2>2. viewer[c] \in Pages /\ Head(chan[c]) \in Events
    BY <2>1, TailShifts DEF TypeOK
  <2>3. viewer'[c].first = (IF viewer[c].first = "none" THEN Head(chan[c]).kind ELSE viewer[c].first)
    BY <2>1, <2>2, ShowFirst
  <2>4. Head(chan[c]).kind # "none"
    BY <2>2, EventFields DEF Events
  <2>5. Clean(c)
    BY <1>0, <2>1, <2>3, <2>4 DEF Clean
  <2> QED
    BY <1>3, <2>5, PageShows
<1>4. CASE Unsubscribe(c)
  BY <1>4, UnsubscribeIs DEF Clean
<1>5. CASE CloseChannel(c)
  BY <1>5, CloseChannelIs DEF Clean, HandlerInv, ConnIs
<1> QED
  BY <1>1, <1>2, <1>3, <1>4, <1>5 DEF Connection

LEMMA PageParts == PageInv <=> \A c \in Clients : Clean(c) => PageAt(c)
BY DEF PageInv

LEMMA PageNext ==
  TypeOK /\ PubInv /\ HandlerInv /\ HistoryInv /\ PageInv /\ [Next]_vars => PageInv'
<1> SUFFICES ASSUME TypeOK, PubInv, HandlerInv, HistoryInv, PageInv, [Next]_vars,
                    NEW c \in Clients, Clean(c)'
             PROVE  PageAt(c)'
  <2>1. (PageInv <=> \A c \in Clients : Clean(c) => PageAt(c))'
    BY PageParts, PTL
  <2> QED
    BY <2>1
<1>0. Clean(c) => PageAt(c)
  BY PageParts
<1>1. CASE Publish \/ Flush
  <2>1. Clean(c)
    BY <1>1, PublisherFrame, CleanSame DEF connVars
  <2> QED
    BY <1>0, <1>1, <2>1, PagePublish
<1>2. CASE OnFinal
  <2>1. \A p \in Publishers : Owes(p, c) => Owes(p, c)' /\ pub'[p].ev = pub[p].ev
    BY <1>2, OnFinalIs DEF Owes, Publishers
  <2>2. Pending' = Pending
    BY <1>2, OnFinalIs DEF Pending, uttVars
  <2> QED
    BY <1>0, <1>2, <2>1, <2>2, OnFinalIs, PageUntouched DEF uttVars, connVars
<1>3. ASSUME NEW s \in States, PublishStatus(s) PROVE PageAt(c)'
  <2>1. /\ UNCHANGED <<uttVars, connVars, slowDrops>> /\ pub'["hub"] = pub["hub"]
        /\ pub'["status"] = Broadcasting(Status(s))
    BY <1>3, PublishStatusIs
  <2>2. Clean(c) /\ PageAt(c)
    BY <1>0, <2>1, CleanSame DEF connVars
  <2>3. Owes("status", c)' /\ (Owes("hub", c)' <=> Owes("hub", c))
    BY <2>1, BroadcastingIs DEF Owes
  <2>4. Coming(c)' = Coming(c) /\ Pending' = Pending
    BY <2>1 DEF Coming, Pending, connVars, uttVars
  <2>5. RightText' = RightText /\ TextShown' = TextShown
    BY <2>1, <2>4 DEF RightText, TextShown, uttVars
  <2>6. TextArrives(c)' /\ StateArrives(c)'
    BY <2>1, <2>2, <2>3, <2>4, <2>5 DEF PageAt, TextArrives, StateArrives, uttVars, connVars
  <2>7. LinesArrive(c)' /\ SnapshotFirst(c)'
    BY <2>1, <2>2, <2>3, <2>4
       DEF PageAt, LinesArrive, LineArrives, SnapshotFirst, uttVars, connVars
  <2> QED
    BY <2>6, <2>7 DEF PageAt
<1>4. ASSUME NEW q \in Publishers, Targets(q) PROVE PageAt(c)'
  <2>1. UNCHANGED <<uttVars, lastState, connVars, slowDrops>> /\ Pending' = Pending
    BY <1>4, TargetsIs DEF uttVars, Pending
  <2>2. c \in subs
    BY <2>1 DEF Clean, connVars
  <2>3. \A p \in Publishers : Owes(p, c) => Owes(p, c)' /\ pub'[p].ev = pub[p].ev
    BY <1>4, <2>2, TargetsIs DEF Owes
  <2> QED
    BY <1>0, <2>1, <2>3, PageUntouched DEF uttVars, connVars
<1>5. ASSUME NEW p \in Publishers, NEW d \in Clients, Send(p, d) PROVE PageAt(c)'
  BY <1>0, <1>5, PageSend
<1>6. ASSUME NEW d \in Clients, Connection(d) PROVE PageAt(c)'
  <2>1. CASE c # d
    <3>1. UNCHANGED <<uttVars, lastState, pub, slowDrops>> /\ Pending' = Pending
      BY <1>6, ConnFrame DEF uttVars, Pending
    <3>2. /\ c \in subs' <=> c \in subs
          /\ chan'[c] = chan[c] /\ handler'[c] = handler[c]
          /\ snap'[c] = snap[c] /\ viewer'[c] = viewer[c]
      BY <1>6, <2>1, OthersStay
    <3>3. Clean(c) /\ PageAt(c)
      BY <1>0, <3>1, <3>2 DEF Clean
    <3>4. Coming(c)' = Coming(c)
      BY <3>2 DEF Coming
    <3>5. \A p \in Publishers : Owes(p, c) => Owes(p, c)' /\ pub'[p].ev = pub[p].ev
      BY <3>1 DEF Owes
    <3> QED
      BY <3>1, <3>2, <3>3, <3>4, <3>5, PageStays DEF uttVars
  <2>2. CASE c = d
    BY <1>0, <1>6, <2>2, PageConnection
  <2> QED
    BY <2>1, <2>2
<1>7. CASE UNCHANGED vars
  <2>1. \A p \in Publishers : Owes(p, c) => Owes(p, c)' /\ pub'[p].ev = pub[p].ev
    BY <1>7 DEF vars, Owes
  <2> QED
    BY <1>0, <1>7, <2>1, PageUntouched DEF vars, uttVars, connVars, Pending
<1> QED
  BY <1>1, <1>2, <1>3, <1>4, <1>5, <1>6, <1>7, Steps

LEMMA PageInvIsEnough == TypeOK /\ HandlerInv /\ PageInv => PageIsCurrent
<1> SUFFICES ASSUME TypeOK, HandlerInv, PageInv, NEW c \in Clients,
                    handler[c] = "streaming", Quiet, chan[c] = <<>>, slowDrops = 0,
                    viewer[c].first = "snapshot"
             PROVE  /\ {history[i] : i \in DOMAIN history}
                         \subseteq {viewer[c].lines[i] : i \in DOMAIN viewer[c].lines}
                    /\ viewer[c].text \in {Pending, announced}
                    /\ viewer[c].state = lastState
  BY DEF PageIsCurrent
<1>1. Clean(c)
  BY DEF Clean, HandlerInv, ConnIs
<1>2. PageAt(c)
  BY <1>1, PageParts
<1>3. \A p \in Publishers : ~Owes(p, c)
  BY IdleIs DEF Quiet, Owes
<1>4. Coming(c) = <<>>
  BY DEF Coming
<1>5. viewer[c].text \in {Pending, announced} /\ viewer[c].state \in {lastState}
  BY <1>2, <1>3, <1>4, ArrivedIs DEF PageAt, TextArrives, StateArrives, Publishers
<1>6. \A i \in DOMAIN history : \E j \in DOMAIN viewer[c].lines : viewer[c].lines[j] = history[i]
  <2>1. DOMAIN Coming(c) = {}
    BY <1>4
  <2> QED
    BY <1>2, <1>3, <2>1 DEF PageAt, LinesArrive, LineArrives, Publishers
<1> QED
  BY <1>5, <1>6

-----------------------------------------------------------------------------
(* The whole.                                                              *)

HubInv == TypeOK /\ PubInv /\ HandlerInv /\ SpeechInv /\ OrderInv /\ LinesInOrder
          /\ MissesAreCounted /\ PageInv

LEMMA HubInit == Init => HubInv
<1> SUFFICES ASSUME Init PROVE HubInv
  OBVIOUS
<1> USE DEF Init
<1>0. <<>> \in Text /\ <<>> \in Seq(Nat) /\ <<>> \in Seq(Events) /\ <<>> \in Seq(Text)
  BY DEF Text
<1>1. TypeOK
  <2>1. BlankPage \in Pages
    BY <1>0 DEF BlankPage, Pages
  <2> QED
    BY <1>0, <2>1, PubStates DEF TypeOK
<1>2. PubInv
  <2>1. Pending = <<>>
    BY DEF Pending
  <2> QED
    BY <2>1, IdleIs DEF PubInv, Publishers
<1>3. HandlerInv
  BY IdleIs DEF HandlerInv, ConnIs
<1>4. SpeechInv
  <2>1. /\ Len(written) = 0 /\ Len(closed) = 0 /\ Len(history) = 0 /\ Len(committed) = 0
        /\ uttSeq = 0 /\ words = 0 /\ pub["hub"].pc = "idle"
    BY IdleIs DEF Publishers
  <2>2. \A i : i \notin 1..0
    OBVIOUS
  <2>3. WrittenInv /\ HistoryInv
    BY <2>1, <2>2, HubAssumption DEF WrittenInv, HistoryInv
  <2>4. LastWord(uttSeq) = 0 /\ Follows(committed, 0)
    BY DEF LastWord, Follows
  <2>5. ClosedInv
    BY <2>1, <2>2, <2>4 DEF ClosedInv
  <2> QED
    BY <2>3, <2>5 DEF SpeechInv
<1>5. OrderInv /\ LinesInOrder
  BY DEF OrderInv, LinesInOrder
<1>6. MissesAreCounted /\ PageInv
  BY DEF MissesAreCounted, PageInv, Clean
<1> QED
  BY <1>1, <1>2, <1>3, <1>4, <1>5, <1>6 DEF HubInv

LEMMA HubNext == HubInv /\ [Next]_vars => HubInv'
<1> SUFFICES ASSUME HubInv, [Next]_vars PROVE HubInv'
  OBVIOUS
<1> QED
  BY TypeNext, PubNext, HandlerNext, SpeechNext, OrderNext, MissesNext, PageNext
     DEF HubInv, SpeechInv

LEMMA HubAlways == Spec => []HubInv
BY HubInit, HubNext, PTL DEF Spec

\* Type correctness of the hub, its publishers, connections and pages.
THEOREM TypeCorrect == Spec => []TypeOK
BY HubAlways, PTL DEF HubInv

\* Publish, Flush and OnFinal: every settled word is in the transcript exactly
\* once and in order, every line is written once and in order, and the history
\* a late joiner is given is the last HistoryLimit lines.
THEOREM EveryWordIsWrittenOnce == Spec => []TranscriptIsTheSpeech
<1>1. HubInv => TranscriptIsTheSpeech
  BY SpeechInvIsEnough DEF HubInv
<1> QED
  BY <1>1, HubAlways, PTL

\* broadcast's default case: nothing but a full channel, counted in
\* slow_disconnects_total, keeps a line from a registered browser.
THEOREM EveryMissIsCounted == Spec => []MissesAreCounted
BY HubAlways, PTL DEF HubInv

\* broadcast, by both goroutines, against Subscribe: a browser's channel takes
\* the lines in the order they were closed, none twice.
THEOREM LinesArriveInOrder == Spec => []LinesInOrder
BY HubAlways, PTL DEF HubInv

\* Subscribe, Publish and broadcast together: a page that began with its
\* snapshot and lost nothing to a full channel shows, once nothing is on its
\* way, the recent lines, the utterance in progress and the connection state.
THEOREM PagesCatchUp == Spec => []PageIsCurrent
<1>1. HubInv => PageIsCurrent
  BY PageInvIsEnough DEF HubInv
<1> QED
  BY <1>1, HubAlways, PTL
=============================================================================
