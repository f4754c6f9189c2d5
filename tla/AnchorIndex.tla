----------------------------- MODULE AnchorIndex -----------------------------
(***************************************************************************)
(* The anchor index of one connection, internal/stt/deepgram/anchor.go,    *)
(* with the writer that feeds it and the server that hears the bytes.      *)
(*                                                                         *)
(* The index answers: when was the audio captured that a result with media *)
(* end-time `media` talks about?  Bytes and durations are counted in       *)
(* samples.  Format.BytesFor truncates a float product, so the end-time of *)
(* k samples may come out one sample short (Wanted); Format.Duration's     *)
(* truncation is below a nanosecond and is left out.  The reader asks at   *)
(* any moment (the index has a mutex), so its question is the operator At  *)
(* and the properties quantify over every question the server's replies    *)
(* can lead to.                                                            *)
(***************************************************************************)
EXTENDS Integers, Sequences

CONSTANTS Window,      \* anchorWindow, in samples
          MaxAnchors,  \* maxAnchors
          Lengths,     \* chunk lengths the ring delivers
          Gaps,        \* sample times between two chunks' capture instants
          Epoch,       \* the clock at the start: not within a chunk of zero
          MaxWritten   \* bound: samples written on the connection

ASSUME AnchorAssumption ==
  /\ Window \in Nat /\ MaxAnchors \in Nat \ {0}
  /\ Lengths \subseteq Nat \ {0} /\ Gaps \subseteq Nat /\ MaxWritten \in Nat
  /\ Epoch \in Nat /\ \A n \in Lengths : n < Epoch

Unknown == 0   \* time.Time{}: the capture instant is not known

VARIABLES
  entries, written,  \* the index
  writer, chunk,     \* writeLoop: between Add and conn.Write, and its chunk
  heard,             \* samples the server has received
  now,               \* the clock when the last chunk was released
  origin             \* history: the chunk each sample written came in

indexVars == <<entries, written>>
vars == <<indexVars, writer, chunk, heard, now, origin>>

Init ==
  /\ entries = <<>> /\ written = 0
  /\ writer = "idle" /\ chunk = 0
  /\ heard = 0
  /\ now = Epoch
  /\ origin = <<>>

\* Faulty variant of the eviction test: by where an entry starts, so that an
\* entry still partly in the window goes.
StaleByStart(e, total, left) == total - e.startByte > Window \/ left > MaxAnchors

\* May entry e go, with `total` samples written and `left` entries kept?
Stale(e, total, left) == total - e.endByte > Window \/ left > MaxAnchors

\* The first entry that stays when stale ones are removed from the front and
\* at least one is kept.
FirstKept(es, total) ==
  CHOOSE k \in DOMAIN es :
    /\ k = Len(es) \/ ~Stale(es[k], total, Len(es) - k + 1)
    /\ \A j \in 1..k - 1 : Stale(es[j], total, Len(es) - j + 1)

Evict(es, total) == SubSeq(es, FirstKept(es, total), Len(es))

\* Add(n, capturedAt)
Add(n, capturedAt) ==
  LET e == [startByte |-> written, endByte |-> written + n, capturedAt |-> capturedAt]
  IN  /\ written' = written + n
      /\ entries' = Evict(Append(entries, e), written')

\* writeLoop pops a chunk of n samples and records it immediately before the
\* write.  Its CapturedAt is the instant the source released it: less than a
\* chunk's length after the last one when the source catches up with its
\* deadlines, runs at a higher --speed or reads a burst, more when it stalls
\* or the ring has dropped audio in between.
WriterAdds(n, gap, known) ==
  LET at == IF known THEN now + gap ELSE Unknown
  IN  /\ writer = "idle" /\ written + n <= MaxWritten
      /\ now' = now + gap
      /\ Add(n, at)
      /\ origin' = origin \o [i \in 1..n |-> [first |-> written, n |-> n, at |-> at]]
      /\ writer' = "write" /\ chunk' = n
      /\ UNCHANGED heard

\* conn.Write returns; the server may have heard the chunk before it does.
ServerHears ==
  /\ writer = "write"
  /\ heard' = heard + chunk
  /\ writer' = "idle" /\ chunk' = 0
  /\ UNCHANGED <<indexVars, now, origin>>

WriterStep == \/ \E n \in Lengths, gap \in Gaps, known \in BOOLEAN :
                   WriterAdds(n, gap, known)
              \/ ServerHears

Next == WriterStep

Spec == Init /\ [][Next]_vars

-----------------------------------------------------------------------------
Last(es) == es[Len(es)]

\* sort.Search: the first entry that ends after `want`.
Covering(want) ==
  CHOOSE i \in DOMAIN entries :
    /\ entries[i].endByte > want
    /\ \A j \in 1..i - 1 : entries[j].endByte <= want

\* Faulty variant: the capture instant of the chunk, not of the sample.
ChunkInstant(e, want) == e.capturedAt

\* e.capturedAt marks the chunk's last sample; walk back to the one wanted.
Interpolate(e, want) ==
  IF e.capturedAt = Unknown THEN Unknown ELSE e.capturedAt - (e.endByte - want)

\* At(media); Unknown is its refusal.
At(want) ==
  IF entries = <<>> THEN Unknown
  ELSE IF want >= written THEN Last(entries).capturedAt
  ELSE IF want < entries[1].startByte THEN Unknown
  ELSE Interpolate(entries[Covering(want)], want)

-----------------------------------------------------------------------------
\* What BytesFor makes of the end-time of k samples, and the sample that
\* answers: capturedAt marks a chunk's last one, so a boundary is answered by
\* the chunk behind it, if there is one.
Wanted(k) == {k - 1, k}
Answering(want) == origin[IF want < written THEN want + 1 ELSE written]

\* A number or none, and never one that misleads by more than a chunk.  The
\* instant answered lies within the length of the chunk that holds the sample,
\* back from the instant that chunk was released, and a later sample of it gets
\* a later instant.  A result that ends after k samples is dated no earlier
\* than the release of its last sample less the length of the chunk that
\* answers, also when that is the next chunk and came in the same burst; and
\* one that ends past what was written is dated by the newest release.
\* (At's clamp, search and interpolation over what Add has evicted.)
AnswersAreClose ==
  /\ \A want \in 0..written - 1 : At(want) # Unknown =>
       LET c == Answering(want)
       IN  c.at # Unknown /\ At(want) >= c.at - c.n /\ At(want) < c.at
  /\ \A u, v \in 0..written - 1 :
       u < v /\ Answering(u) = Answering(v) /\ At(u) # Unknown => At(u) < At(v)
  /\ \A k \in 1..written : \A want \in Wanted(k) :
       At(want) # Unknown /\ origin[k].at # Unknown =>
         At(want) >= origin[k].at - Answering(want).n
  /\ written > 0 => At(written) = origin[written].at

\* A reply, however fast, finds what it talks about in the index: of the
\* samples the server has heard, those in the last Window are there, unless
\* more than MaxAnchors chunks make them up (Add before conn.Write; Add's
\* eviction).
RecentIsAnswered ==
  \A want \in 0..heard - 1 :
    written - want <= Window /\ Len(entries) < MaxAnchors =>
      want < written /\ entries[1].startByte <= want
=============================================================================
