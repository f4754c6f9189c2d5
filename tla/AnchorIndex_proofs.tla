-------------------------- MODULE AnchorIndex_proofs --------------------------
(***************************************************************************)
(* Proofs about the anchor index: for every window, entry limit and set of *)
(* chunk lengths, what the index answers is close and what is recent is    *)
(* answered.                                                               *)
(***************************************************************************)
EXTENDS AnchorIndex, TLAPS, WellFoundedInduction, SequenceTheorems

\* A set of natural numbers that is not empty has a smallest element: the
\* searches of At and of Add's eviction find something.
LEMMA Smallest ==
  ASSUME NEW S \in SUBSET Nat, S # {}
  PROVE  \E m \in S : \A j \in S : ~(j < m)
<1>1. PICK m \in S : \A j \in S : ~ (<<j, m>> \in OpToRel(<, Nat))
  BY NatLessThanWellFounded, WFMin
<1>2. \A j \in S : <<j, m>> \in OpToRel(<, Nat) <=> j < m
  BY DEF OpToRel
<1> QED BY <1>1, <1>2, Zenon

Entries == [startByte : Nat, endByte : Nat, capturedAt : Nat]

\* The entries tile the end of the stream: consecutive, without gap or
\* overlap, up to the last sample written.
Tiles(es, total) ==
  /\ es \in Seq(Entries) /\ total \in Nat
  /\ es = <<>> <=> total = 0
  /\ es # <<>> => es[Len(es)].endByte = total
  /\ \A i \in 1..Len(es) : es[i].startByte < es[i].endByte /\ es[i].endByte <= total
  /\ \A i \in 1..Len(es) - 1 : es[i].endByte = es[i + 1].startByte

\* What has left the index is older than the window, or the index is full.
Recent(es, total) ==
  es # <<>> =>
    \/ es[1].startByte = 0
    \/ total - es[1].startByte > Window
    \/ Len(es) >= MaxAnchors

\* The entries' instants lie after the start of capture.
Started(es) ==
  \A i \in 1..Len(es) :
    es[i].capturedAt = Unknown \/ es[i].capturedAt > es[i].endByte - es[i].startByte

Samples == [first : Nat, n : Nat, at : Nat]

\* What the history says of the samples of an entry's chunk.
From(e) == [first |-> e.startByte, n |-> e.endByte - e.startByte, at |-> e.capturedAt]

\* The samples an entry covers came in its chunk.
Sourced(es, orig) ==
  \A i \in 1..Len(es) : \A s \in es[i].startByte + 1 .. es[i].endByte :
    orig[s] = From(es[i])

\* Chunks are released in stream order, none later than the clock.
Forward(orig, clock) ==
  /\ \A s \in 1..Len(orig) : orig[s].at <= clock
  /\ \A s, u \in 1..Len(orig) :
       s < u /\ orig[s].at # Unknown /\ orig[u].at # Unknown => orig[s].at <= orig[u].at

\* The server has heard everything but the chunk being written.
WriterInv ==
  /\ heard \in Nat /\ chunk \in Nat
  /\ writer \in {"idle", "write"}
  /\ writer = "idle" => heard = written
  /\ writer = "write" => heard + chunk = written

IInv ==
  /\ Tiles(entries, written)
  /\ Recent(entries, written)
  /\ origin \in Seq(Samples) /\ Len(origin) = written
  /\ now \in Nat /\ now >= Epoch
  /\ Started(entries) /\ Sourced(entries, origin) /\ Forward(origin, now)
  /\ WriterInv

-----------------------------------------------------------------------------
(* The eviction and the search find what they look for.                    *)

LEMMA EntryIs ==
  ASSUME NEW es \in Seq(Entries)
  PROVE  /\ Len(es) \in Nat
         /\ \A i \in 1..Len(es) : /\ es[i].startByte \in Nat
                                  /\ es[i].endByte \in Nat
                                  /\ es[i].capturedAt \in Nat
<1>1. \A i \in 1..Len(es) : es[i] \in Entries
  OBVIOUS
<1> QED BY <1>1 DEF Entries

LEMMA FirstKeptIs ==
  ASSUME NEW es \in Seq(Entries), es # <<>>, NEW total \in Nat
  PROVE  /\ FirstKept(es, total) \in 1..Len(es)
         /\ \A j \in 1..FirstKept(es, total) - 1 : Stale(es[j], total, Len(es) - j + 1)
<1> DEFINE Stays(k) == k = Len(es) \/ ~Stale(es[k], total, Len(es) - k + 1)
           S == {k \in 1..Len(es) : Stays(k)}
<1>1. S \in SUBSET Nat /\ Len(es) \in S
  OBVIOUS
<1>2. PICK k \in S : \A j \in S : ~(j < k)
  BY <1>1, Smallest
<1>3. \A j \in 1..k - 1 : j \in 1..Len(es) /\ j < k
  BY <1>2
<1>4. k \in DOMAIN es /\ Stays(k) /\ \A j \in 1..k - 1 : Stale(es[j], total, Len(es) - j + 1)
  BY <1>2, <1>3
<1>5. DOMAIN es = 1..Len(es)
  OBVIOUS
<1> QED BY <1>4, <1>5, Zenon DEF FirstKept

LEMMA CoveringIs ==
  ASSUME Tiles(entries, written), NEW want \in 0..written - 1
  PROVE  /\ Covering(want) \in 1..Len(entries)
         /\ entries[Covering(want)].endByte > want
         /\ \A j \in 1..Covering(want) - 1 : entries[j].endByte <= want
<1> DEFINE S == {k \in 1..Len(entries) : entries[k].endByte > want}
<1>1. S \in SUBSET Nat /\ Len(entries) \in S
  BY DEF Tiles, Entries
<1>2. PICK k \in S : \A j \in S : ~(j < k)
  BY <1>1, Smallest
<1>3. \A j \in 1..Len(entries) : entries[j].endByte \in Nat
  BY EntryIs DEF Tiles
<1>4. k \in 1..Len(entries) /\ Len(entries) \in Nat
  BY <1>2 DEF Tiles
<1>5. \A j \in 1..k - 1 : j \in 1..Len(entries) /\ ~(j \in S)
  BY <1>2, <1>4
<1>6. \A j \in 1..k - 1 : entries[j].endByte <= want
  BY <1>3, <1>5
<1>7. DOMAIN entries = 1..Len(entries)
  BY DEF Tiles
<1>8. k \in DOMAIN entries /\ entries[k].endByte > want
  BY <1>2, <1>4, <1>7
<1> QED BY <1>6, <1>7, <1>8, Zenon DEF Covering

-----------------------------------------------------------------------------
(* Appending a chunk and evicting from the front keep the index in order.  *)

LEMMA AppendTiles ==
  ASSUME NEW es, NEW total, Tiles(es, total), NEW n \in Nat \ {0}, NEW at \in Nat,
         NEW e, e = [startByte |-> total, endByte |-> total + n, capturedAt |-> at]
  PROVE  Tiles(Append(es, e), total + n)
<1>1. e \in Entries
  BY DEF Tiles, Entries
<1> DEFINE new == Append(es, e)
<1>2. /\ new \in Seq(Entries) /\ Len(new) = Len(es) + 1 /\ new[Len(es) + 1] = e
      /\ \A i \in 1..Len(es) : new[i] = es[i]
  BY <1>1 DEF Tiles
<1>3. Len(es) \in Nat /\ total \in Nat /\ new # <<>> /\ total + n # 0
  BY <1>2 DEF Tiles
<1>4. \A i \in 1..Len(es) : es[i].endByte \in Nat /\ es[i].startByte < es[i].endByte
                            /\ es[i].endByte <= total
  BY EntryIs DEF Tiles
<1> HIDE DEF new
<1>5. \A i \in 1..Len(new) : new[i].startByte < new[i].endByte /\ new[i].endByte <= total + n
  BY <1>2, <1>3, <1>4
<1>6. \A i \in 1..Len(new) - 1 : new[i].endByte = new[i + 1].startByte
  <2> SUFFICES ASSUME NEW i \in 1..Len(new) - 1
               PROVE  new[i].endByte = new[i + 1].startByte
    OBVIOUS
  <2>1. CASE i = Len(es)
    BY <1>2, <1>3, <2>1 DEF Tiles
  <2>2. CASE i < Len(es)
    BY <1>2, <1>3, <2>2, SMTT(30) DEF Tiles
  <2> QED BY <1>2, <1>3, <2>1, <2>2
<1>7. Tiles(new, total + n)
  BY <1>2, <1>3, <1>5, <1>6 DEF Tiles
<1> QED BY <1>7 DEF new

LEMMA SuffixTiles ==
  ASSUME NEW es, NEW total, Tiles(es, total), NEW k \in 1..Len(es)
  PROVE  /\ Tiles(SubSeq(es, k, Len(es)), total)
         /\ Len(SubSeq(es, k, Len(es))) = Len(es) - k + 1
         /\ \A i \in 1..Len(es) - k + 1 : SubSeq(es, k, Len(es))[i] = es[k + i - 1]
<1> DEFINE sub == SubSeq(es, k, Len(es))
<1>1. /\ sub \in Seq(Entries) /\ Len(sub) = Len(es) - k + 1
      /\ \A i \in 1..Len(es) - k + 1 : sub[i] = es[k + i - 1]
  BY SubSeqProperties DEF Tiles
<1> HIDE DEF sub
<1>6. Len(es) \in Nat /\ k \in Int /\ 1 <= k /\ k <= Len(es)
  BY DEF Tiles
<1>2. total # 0 /\ sub # <<>> /\ sub[Len(sub)] = es[Len(es)]
  BY <1>1, <1>6 DEF Tiles
<1>3. \A i \in 1..Len(sub) : sub[i].startByte < sub[i].endByte /\ sub[i].endByte <= total
  <2>1. \A i \in 1..Len(sub) : k + i - 1 \in 1..Len(es) /\ sub[i] = es[k + i - 1]
    BY <1>1, <1>6, SMTT(30)
  <2> QED BY <2>1 DEF Tiles
<1>4. \A i \in 1..Len(sub) - 1 : sub[i].endByte = sub[i + 1].startByte
  <2> SUFFICES ASSUME NEW i \in 1..Len(sub) - 1
               PROVE  sub[i].endByte = sub[i + 1].startByte
    OBVIOUS
  <2>1. sub[i] = es[k + i - 1] /\ sub[i + 1] = es[k + i]
    BY <1>1, <1>6
  <2>2. k + i - 1 \in 1..Len(es) - 1 /\ (k + i - 1) + 1 = k + i
    BY <1>1, <1>6
  <2> QED BY <2>1, <2>2 DEF Tiles
<1>5. Tiles(sub, total)
  BY <1>1, <1>2, <1>3, <1>4 DEF Tiles
<1> QED BY <1>1, <1>5 DEF sub

\* What Add does to the entries keeps them in order and evicts no recent one.
LEMMA AddKeeps ==
  ASSUME Tiles(entries, written), Recent(entries, written),
         Started(entries), Sourced(entries, origin),
         origin \in Seq(Samples), Len(origin) = written,
         NEW n \in Nat \ {0}, NEW at \in Nat, at = Unknown \/ at > n, Add(n, at),
         NEW batch \in Seq(Samples), Len(batch) = n,
         \A i \in 1..n : batch[i] = [first |-> written, n |-> n, at |-> at]
  PROVE  /\ Tiles(entries', written') /\ Recent(entries', written')
         /\ Started(entries') /\ Sourced(entries', origin \o batch)
<1> DEFINE e == [startByte |-> written, endByte |-> written + n, capturedAt |-> at]
           es == Append(entries, e)
           k == FirstKept(es, written + n)
<1>0. e = [startByte |-> written, endByte |-> written + n, capturedAt |-> at]
  OBVIOUS
<1>1. written' = written + n /\ entries' = SubSeq(es, k, Len(es))
  BY DEF Add, Evict
<1>2. /\ written \in Nat /\ entries \in Seq(Entries) /\ Len(entries) \in Nat
      /\ n \in Nat /\ n > 0 /\ written + n \in Nat
  BY DEF Tiles
<1>3. Tiles(es, written + n)
  BY <1>0, AppendTiles
<1>4. e \in Entries
  BY <1>2 DEF Entries
<1>6. /\ e.startByte = written /\ e.endByte = written + n /\ e.capturedAt = at
  OBVIOUS
<1> HIDE DEF e
<1>5. /\ Len(es) = Len(entries) + 1 /\ es[Len(es)] = e /\ es # <<>>
      /\ \A i \in 1..Len(entries) : es[i] = entries[i]
  BY <1>2, <1>4, AppendProperties, SMTT(30)
<1>7. es \in Seq(Entries)
  BY <1>3 DEF Tiles
<1> HIDE DEF es
<1>8. /\ k \in 1..Len(es)
      /\ \A j \in 1..k - 1 : Stale(es[j], written + n, Len(es) - j + 1)
  BY <1>2, <1>5, <1>7, FirstKeptIs
<1> HIDE DEF k
<1>9. /\ Tiles(entries', written')
      /\ Len(entries') = Len(es) - k + 1
      /\ \A i \in 1..Len(es) - k + 1 : entries'[i] = es[k + i - 1]
  BY <1>1, <1>3, <1>8, SuffixTiles
<1>10. Recent(entries', written')
  <2>0. Len(es) \in Nat /\ k \in Nat /\ 1 <= k /\ k <= Len(es)
    BY <1>2, <1>5, <1>8
  <2>1. /\ entries'[1] = es[k]
        /\ Len(es) \in Nat /\ k \in Nat /\ 1 <= k /\ k <= Len(es)
    <3>1. 1 \in 1..Len(es) - k + 1 /\ k + 1 - 1 = k
      BY <2>0
    <3> QED BY <1>9, <2>0, <3>1
  <2>2. CASE k = 1 /\ entries = <<>>
    <3>1. written = 0 /\ es[1] = e
      BY <1>5, <2>2 DEF Tiles
    <3> QED BY <1>6, <2>1, <2>2, <3>1 DEF Recent
  <2>3. CASE k = 1 /\ entries # <<>>
    <3>1. 1 \in 1..Len(entries) /\ es[1] = entries[1]
      BY <1>2, <1>5, <2>3
    <3>2. entries[1].startByte \in Nat
      BY <1>2, <3>1, EntryIs
    <3> QED
      BY <1>1, <1>2, <1>5, <1>9, <2>1, <2>3, <3>1, <3>2, AnchorAssumption, SMTT(30) DEF Recent
  <2>4. CASE k > 1
    <3>0. Len(entries') = Len(es) - k + 1
      BY <1>9
    <3>1. k - 1 \in 1..Len(es) - 1 /\ k - 1 \in 1..k - 1 /\ (k - 1) + 1 = k
          /\ Len(es) - (k - 1) + 1 = Len(entries') + 1
      BY <2>0, <2>4, <3>0
    <3>2. es[k - 1].endByte = es[k].startByte
      BY <1>3, <3>1 DEF Tiles
    <3>3. Stale(es[k - 1], written + n, Len(entries') + 1)
      BY <1>8, <3>1
    <3>4. Len(entries') \in Nat
      BY <1>9, <2>1
    <3> QED
      BY <1>1, <2>1, <3>2, <3>3, <3>4, AnchorAssumption DEF Recent, Stale
  <2> QED BY <2>1, <2>2, <2>3, <2>4
<1>11. Sourced(es, origin \o batch)
  <2> SUFFICES ASSUME NEW i \in 1..Len(es), NEW s \in es[i].startByte + 1 .. es[i].endByte
               PROVE  (origin \o batch)[s] = From(es[i])
    BY DEF Sourced
  <2>1. es[i].startByte \in Nat /\ es[i].endByte \in Nat /\ es[i].capturedAt \in Nat
    BY <1>7, EntryIs
  <2>2. CASE i = Len(es)
    <3>1. s \in written + 1 .. written + n /\ es[i] = e
      BY <1>5, <1>6, <2>2
    <3>2. s - written \in 1..n /\ s \in 1..written + n /\ ~(s <= written)
      BY <1>2, <3>1
    <3>3. (origin \o batch)[s] = batch[s - written]
      BY <1>2, <3>2, ConcatProperties
    <3>4. From(es[i]) = [first |-> written, n |-> n, at |-> at]
      BY <1>2, <1>6, <3>1 DEF From
    <3> QED BY <3>2, <3>3, <3>4
  <2>3. CASE i # Len(es)
    <3>0. i \in 1..Len(entries)
      BY <1>2, <1>5, <2>3, SMTT(30)
    <3>1. i \in 1..Len(entries) /\ es[i] = entries[i]
      BY <1>5, <3>0
    <3>2. es[i].endByte <= written
      BY <3>1 DEF Tiles
    <3>3. s \in 1..written + n /\ s <= written
      <4>1. s \in Int /\ es[i].startByte + 1 <= s /\ s <= es[i].endByte
        BY <2>1
      <4> QED BY <1>2, <2>1, <3>2, <4>1, SMTT(30)
    <3>4. (origin \o batch)[s] = origin[s]
      BY <1>2, <3>3, ConcatProperties
    <3> QED BY <3>1, <3>4 DEF Sourced
  <2> QED BY <2>2, <2>3
<1>12. ASSUME NEW i \in 1..Len(entries')
       PROVE  k + i - 1 \in 1..Len(es) /\ entries'[i] = es[k + i - 1]
  <2>1. Len(es) \in Nat /\ k \in 1..Len(es) /\ Len(entries') = Len(es) - k + 1
        /\ \A j \in 1..Len(es) - k + 1 : entries'[j] = es[k + j - 1]
    BY <1>2, <1>5, <1>8, <1>9
  <2>2. i \in 1..Len(es) - k + 1 /\ k + i - 1 \in 1..Len(es)
    BY <2>1
  <2> QED BY <2>1, <2>2
<1>13. Sourced(entries', origin \o batch)
  <2> SUFFICES ASSUME NEW i \in 1..Len(entries'),
                      NEW s \in entries'[i].startByte + 1 .. entries'[i].endByte
               PROVE  (origin \o batch)[s] = From(entries'[i])
    BY DEF Sourced
  <2>1. k + i - 1 \in 1..Len(es) /\ entries'[i] = es[k + i - 1]
    BY <1>12
  <2>2. s \in es[k + i - 1].startByte + 1 .. es[k + i - 1].endByte
    BY <2>1
  <2>3. (origin \o batch)[s] = From(es[k + i - 1])
    BY <1>11, <2>1, <2>2 DEF Sourced
  <2> QED BY <2>1, <2>3
<1>14. Started(entries')
  <2> SUFFICES ASSUME NEW i \in 1..Len(entries'), entries'[i].capturedAt # Unknown
               PROVE  entries'[i].capturedAt > entries'[i].endByte - entries'[i].startByte
    BY DEF Started
  <2>1. k + i - 1 \in 1..Len(es) /\ entries'[i] = es[k + i - 1]
    BY <1>12
  <2>2. CASE k + i - 1 = Len(es)
    BY <1>2, <1>5, <1>6, <2>1, <2>2
  <2>3. CASE k + i - 1 # Len(es)
    <3>1. k + i - 1 \in 1..Len(entries) /\ es[k + i - 1] = entries[k + i - 1]
      BY <1>2, <1>5, <2>1, <2>3
    <3> QED BY <2>1, <3>1 DEF Started
  <2> QED BY <2>2, <2>3
<1> QED BY <1>9, <1>10, <1>13, <1>14
-----------------------------------------------------------------------------
(* The invariant.                                                          *)

Batch(first, n, at) == [i \in 1..n |-> [first |-> first, n |-> n, at |-> at]]

LEMMA BatchIs ==
  ASSUME NEW first \in Nat, NEW n \in Nat, NEW at \in Nat
  PROVE  /\ Batch(first, n, at) \in Seq(Samples) /\ Len(Batch(first, n, at)) = n
         /\ \A i \in 1..n : Batch(first, n, at)[i] = [first |-> first, n |-> n, at |-> at]
<1>1. [first |-> first, n |-> n, at |-> at] \in Samples
  BY DEF Samples
<1>2. Batch(first, n, at) \in [1..n -> Samples]
  BY <1>1 DEF Batch
<1>3. Batch(first, n, at) \in Seq(Samples) /\ Len(Batch(first, n, at)) = n
  BY <1>2
<1> QED BY <1>3 DEF Batch

LEMMA SampleIs ==
  ASSUME NEW orig \in Seq(Samples), NEW s \in 1..Len(orig)
  PROVE  orig[s].first \in Nat /\ orig[s].n \in Nat /\ orig[s].at \in Nat
<1>1. orig[s] \in Samples
  OBVIOUS
<1> QED BY <1>1 DEF Samples

LEMMA ForwardKeeps ==
  ASSUME origin \in Seq(Samples), NEW gap \in Nat, now \in Nat, Forward(origin, now),
         NEW at \in {Unknown, now + gap},
         NEW batch \in Seq(Samples), \A i \in 1..Len(batch) : batch[i].at = at
  PROVE  Forward(origin \o batch, now + gap)
<1> DEFINE all == origin \o batch
           Known(s) == all[s].at
<1>1. /\ Len(all) = Len(origin) + Len(batch) /\ Len(origin) \in Nat /\ Len(batch) \in Nat
      /\ \A s \in 1..Len(origin) + Len(batch) :
           all[s] = IF s <= Len(origin) THEN origin[s] ELSE batch[s - Len(origin)]
  BY ConcatProperties
<1>2. \A s \in 1..Len(origin) : origin[s].at \in Nat
  BY SampleIs
<1> HIDE DEF all
<1>3. \A s \in 1..Len(all) : s <= Len(origin) => s \in 1..Len(origin) /\ all[s] = origin[s]
  BY <1>1
<1>4. \A s \in 1..Len(all) : ~(s <= Len(origin)) => Known(s) = at
  <2> SUFFICES ASSUME NEW s \in 1..Len(all), ~(s <= Len(origin)) PROVE Known(s) = at
    OBVIOUS
  <2>1. s \in 1..Len(origin) + Len(batch) /\ s - Len(origin) \in 1..Len(batch)
    BY <1>1
  <2> QED BY <1>1, <2>1
<1>5. ASSUME NEW s \in 1..Len(all)
      PROVE  /\ Known(s) <= now + gap
             /\ s <= Len(origin) => Known(s) <= now /\ Known(s) \in Nat
  <2>1. CASE s <= Len(origin)
    <3>1. Known(s) \in Nat /\ Known(s) <= now
      BY <1>2, <1>3, <2>1 DEF Forward
    <3> HIDE DEF Known
    <3> QED BY <3>1
  <2>2. CASE ~(s <= Len(origin))
    BY <1>4, <2>2 DEF Unknown
  <2> QED BY <2>1, <2>2
<1>6. ASSUME NEW s \in 1..Len(all), NEW u \in 1..Len(all),
             s < u, Known(s) # Unknown, Known(u) # Unknown
      PROVE  Known(s) <= Known(u)
  <2>1. CASE u <= Len(origin)
    <3>1. s <= Len(origin)
      BY <1>1, <1>6, <2>1
    <3> QED BY <1>3, <1>6, <2>1, <3>1 DEF Forward
  <2>2. CASE ~(u <= Len(origin)) /\ s <= Len(origin)
    <3>1. Known(u) = now + gap
      BY <1>4, <1>6, <2>2
    <3>2. Known(s) \in Nat /\ Known(s) <= now
      BY <1>5, <2>2
    <3> HIDE DEF Known
    <3> QED BY <3>1, <3>2
  <2>3. CASE ~(u <= Len(origin)) /\ ~(s <= Len(origin))
    BY <1>4, <2>3 DEF Unknown
  <2> QED BY <2>1, <2>2, <2>3
<1>7. Forward(all, now + gap)
  BY <1>5, <1>6 DEF Forward
<1> QED BY <1>7 DEF all

LEMMA InitIInv == Init => IInv
BY AnchorAssumption
   DEF Init, IInv, Tiles, Recent, Started, Sourced, Forward, WriterInv, Entries

LEMMA NextIInv == IInv /\ [Next]_vars => IInv'
<1> SUFFICES ASSUME IInv, [Next]_vars PROVE IInv'
  OBVIOUS
<1>1. CASE UNCHANGED vars
  BY <1>1 DEF IInv, WriterInv, vars, indexVars
<1>2. ASSUME NEW n \in Lengths, NEW gap \in Gaps, NEW known \in BOOLEAN,
             WriterAdds(n, gap, known)
      PROVE  IInv'
  <2> DEFINE at == IF known THEN now + gap ELSE Unknown
             batch == Batch(written, n, at)
  <2>1. n \in Nat \ {0} /\ gap \in Nat /\ now \in Nat /\ written \in Nat
        /\ n < Epoch /\ Epoch \in Nat /\ now >= Epoch
    BY AnchorAssumption DEF IInv, Tiles
  <2>2. now' = now + gap /\ now' \in Nat /\ now' >= Epoch
    BY <1>2, <2>1 DEF WriterAdds
  <2>3. at \in {Unknown, now + gap} /\ at \in Nat /\ (at = Unknown \/ at > n)
    BY <2>1 DEF Unknown
  <2>4. Add(n, at) /\ origin' = origin \o batch
    BY <1>2 DEF WriterAdds, Batch
  <2>5. written' = written + n
    BY <2>4 DEF Add
  <2> HIDE DEF at
  <2>6. /\ batch \in Seq(Samples) /\ Len(batch) = n
        /\ \A i \in 1..n : batch[i] = [first |-> written, n |-> n, at |-> at]
    BY <2>1, <2>3, BatchIs
  <2> HIDE DEF batch
  <2>7. /\ Tiles(entries', written') /\ Recent(entries', written')
        /\ Started(entries') /\ Sourced(entries', origin')
    BY <2>1, <2>3, <2>4, <2>6, AddKeeps DEF IInv
  <2>8. origin' \in Seq(Samples) /\ Len(origin') = written'
    BY <2>1, <2>4, <2>5, <2>6, ConcatProperties DEF IInv
  <2>9. Forward(origin', now')
    <3>1. \A i \in 1..Len(batch) : batch[i].at = at
      BY <2>6
    <3> QED BY <2>1, <2>2, <2>3, <2>4, <2>6, <3>1, ForwardKeeps DEF IInv
  <2>10. WriterInv'
    BY <1>2, <2>1, <2>5 DEF WriterAdds, WriterInv, IInv
  <2> QED BY <2>2, <2>7, <2>8, <2>9, <2>10 DEF IInv
<1>3. CASE ServerHears
  <2>1. UNCHANGED <<entries, written, now, origin>>
    BY <1>3 DEF ServerHears, indexVars
  <2>2. WriterInv'
    BY <1>3 DEF ServerHears, indexVars, WriterInv, IInv, Tiles
  <2> QED BY <2>1, <2>2 DEF IInv
<1> QED BY <1>1, <1>2, <1>3 DEF Next, WriterStep

\* Whatever the server talks about within the window is in the index, also
\* when its reply overtakes the return of conn.Write.
THEOREM RecentAnswered == Spec => []RecentIsAnswered
<1>1. IInv => RecentIsAnswered
  <2> SUFFICES ASSUME IInv, NEW want \in 0..heard - 1,
                      written - want <= Window, Len(entries) < MaxAnchors
               PROVE  want < written /\ entries[1].startByte <= want
    BY DEF RecentIsAnswered
  <2>1. heard \in Nat /\ heard <= written /\ written \in Nat
    BY DEF IInv, WriterInv, Tiles
  <2>2. want \in Nat /\ want < written
    BY <2>1
  <2>3. entries # <<>> /\ entries \in Seq(Entries)
    BY <2>1, <2>2 DEF IInv, Tiles
  <2>4. entries[1].startByte \in Nat /\ Len(entries) \in Nat
    <3>1. 1 \in 1..Len(entries)
      BY <2>3
    <3> QED BY <2>3, <3>1, EntryIs
  <2>5. entries[1].startByte = 0 \/ written - entries[1].startByte > Window
    BY <2>3, <2>4, AnchorAssumption DEF IInv, Recent
  <2> QED BY <2>1, <2>2, <2>4, <2>5, AnchorAssumption
<1> QED BY <1>1, InitIInv, NextIInv, PTL DEF Spec

\* What is answered has not left the index.
LEMMA AnsweredIsKept ==
  ASSUME IInv, NEW want \in 0..written - 1, At(want) # Unknown
  PROVE  entries[1].startByte <= want
<1>1. written \in Nat /\ entries \in Seq(Entries) /\ want \in Nat /\ want < written
      /\ entries # <<>>
  BY DEF IInv, Tiles
<1>2. entries[1].startByte \in Nat
  <2>1. 1 \in 1..Len(entries)
    BY <1>1
  <2> QED BY <1>1, <2>1, EntryIs
<1>3. ~(want < entries[1].startByte)
  BY <1>1 DEF At
<1> QED BY <1>1, <1>2, <1>3

\* What At answers for a sample in the index, in terms of its chunk.
LEMMA AnswerIs ==
  ASSUME IInv, NEW want \in 0..written - 1, entries[1].startByte <= want,
         NEW c, c = origin[want + 1]
  PROVE  /\ c.at \in Nat /\ c.first \in Nat /\ c.n \in Nat
         /\ c.first <= want /\ want < c.first + c.n
         /\ At(want) = Unknown <=> c.at = Unknown
         /\ At(want) # Unknown => At(want) = c.at - (c.first + c.n - want)
<1>1. written \in Nat /\ entries \in Seq(Entries) /\ want \in Nat
      /\ want < written /\ entries # <<>>
  BY DEF IInv, Tiles
<1> DEFINE i == Covering(want)
           e == entries[i]
<1>2. /\ i \in 1..Len(entries) /\ e.endByte > want
      /\ \A j \in 1..i - 1 : entries[j].endByte <= want
  BY CoveringIs DEF IInv
<1>3. At(want) = Interpolate(e, want)
  <2>1. entries[1].startByte \in Nat
    <3>1. 1 \in 1..Len(entries)
      BY <1>1
    <3> QED BY <1>1, <3>1, EntryIs
  <2>2. ~(want >= written) /\ ~(want < entries[1].startByte)
    BY <1>1, <2>1
  <2> QED BY <1>1, <2>2 DEF At
<1> HIDE DEF i
<1>4. e.startByte \in Nat /\ e.endByte \in Nat /\ e.capturedAt \in Nat
      /\ entries[1].startByte \in Nat /\ Len(entries) \in Nat
  <2>1. 1 \in 1..Len(entries)
    BY <1>1
  <2> QED BY <1>1, <1>2, <2>1, EntryIs
<1>5. e.startByte <= want
  <2>1. CASE i = 1
    <3>1. e.startByte = entries[1].startByte
      BY <2>1
    <3> QED BY <1>1, <1>4, <3>1
  <2>2. CASE i # 1
    <3>1. i - 1 \in 1..i - 1 /\ i - 1 \in 1..Len(entries) - 1 /\ (i - 1) + 1 = i
      BY <1>2, <1>4, <2>2
    <3> QED BY <1>2, <3>1 DEF IInv, Tiles
  <2> QED BY <2>1, <2>2
<1>6. want + 1 \in e.startByte + 1 .. e.endByte
  BY <1>1, <1>2, <1>4, <1>5
<1>7. c = From(e)
  BY <1>2, <1>6 DEF IInv, Sourced
<1>8. At(want) = IF e.capturedAt = Unknown THEN Unknown
                 ELSE e.capturedAt - (e.endByte - want)
  BY <1>3 DEF Interpolate
<1>9. e.capturedAt = Unknown \/ e.capturedAt > e.endByte - e.startByte
  BY <1>2 DEF IInv, Started
<1>10. c.first = e.startByte /\ c.n = e.endByte - e.startByte /\ c.at = e.capturedAt
  BY <1>7 DEF From
<1> HIDE DEF e
<1>11. c.n \in Nat /\ e.startByte + c.n = e.endByte
  BY <1>1, <1>2, <1>4, <1>5, <1>10
<1>12. c.first <= want /\ want < c.first + c.n
  BY <1>1, <1>2, <1>4, <1>5, <1>10, <1>11
<1>13. /\ At(want) = Unknown <=> c.at = Unknown
       /\ At(want) # Unknown => At(want) = c.at - (c.first + c.n - want)
  <2>1. CASE e.capturedAt = Unknown
    BY <1>8, <1>10, <2>1
  <2>2. CASE e.capturedAt # Unknown
    <3>1. e.capturedAt > c.n /\ e.endByte - want <= c.n
      BY <1>1, <1>4, <1>5, <1>10, <1>11, <1>9, <2>2
    <3>2. e.capturedAt - (e.endByte - want) # 0
      BY <1>1, <1>4, <1>11, <3>1
    <3>3. c.first + c.n = e.endByte
      BY <1>10, <1>11
    <3>4. At(want) = e.capturedAt - (e.endByte - want)
      BY <1>8, <2>2, Zenon
    <3>5. At(want) = c.at - (c.first + c.n - want)
      <4>1. c.first \in Nat /\ c.n \in Nat /\ c.at \in Nat /\ c.at = e.capturedAt
        BY <1>4, <1>10, <1>11
      <4>2. PICK first \in Nat, n \in Nat, at \in Nat, end \in Nat :
              first = c.first /\ n = c.n /\ at = c.at /\ end = e.endByte
        BY <1>4, <4>1
      <4>3. first + n = end
        BY <3>3, <4>2
      <4>4. At(want) = at - (end - want)
        BY <3>4, <4>1, <4>2
      <4>5. At(want) = at - (first + n - want)
        BY <1>1, <4>3, <4>4
      <4> QED BY <4>2, <4>5
    <3> QED BY <1>10, <2>2, <3>2, <3>4, <3>5, Zenon DEF Unknown
  <2> QED BY <2>1, <2>2
<1> QED BY <1>4, <1>10, <1>11, <1>12, <1>13

LEMMA AnsweringIs ==
  ASSUME IInv, NEW want \in 0..written - 1
  PROVE  Answering(want) = origin[want + 1] /\ want + 1 \in 1..Len(origin)
BY DEF Answering, IInv, Tiles

\* Past the end the newest chunk's release is the answer.
LEMMA NewestAnswers ==
  ASSUME IInv, written > 0
  PROVE  At(written) = origin[written].at
<1>1. /\ entries # <<>> /\ entries \in Seq(Entries) /\ written \in Nat
      /\ entries[Len(entries)].endByte = written
  BY DEF IInv, Tiles
<1>2. Len(entries) \in 1..Len(entries) /\ Len(entries) \in Nat
  BY <1>1
<1> DEFINE e == entries[Len(entries)]
<1>3. e.startByte \in Nat /\ e.endByte \in Nat /\ e.startByte < e.endByte
  BY <1>1, <1>2, EntryIs DEF IInv, Tiles
<1>4. written \in e.startByte + 1 .. e.endByte
  BY <1>1, <1>3
<1>5. origin[written] = From(e)
  BY <1>2, <1>4 DEF IInv, Sourced
<1>6. At(written) = e.capturedAt
  BY <1>1 DEF At, Last
<1> QED BY <1>5, <1>6 DEF From

\* What At answers is never further from the release of the chunk it answers by
\* than that chunk is long, follows the samples within a chunk, and never dates
\* a result more than that length before its last words were released: for
\* every history of chunks, of releases at any distance, bursts included, and
\* of unknown instants.
THEOREM AnswersClose == Spec => []AnswersAreClose
<1>1. ASSUME IInv, NEW want \in 0..written - 1, At(want) # Unknown
      PROVE  LET c == Answering(want)
             IN  c.at # Unknown /\ At(want) >= c.at - c.n /\ At(want) < c.at
  <2> DEFINE c == origin[want + 1]
  <2>1. Answering(want) = c /\ want \in Nat
    BY <1>1, AnsweringIs DEF IInv, Tiles
  <2>2. /\ c.at # Unknown /\ c.at \in Nat /\ c.first \in Nat /\ c.n \in Nat
        /\ c.first <= want /\ want < c.first + c.n
        /\ At(want) = c.at - (c.first + c.n - want)
    BY <1>1, AnswerIs, AnsweredIsKept
  <2> HIDE DEF c
  <2>3. At(want) >= c.at - c.n /\ At(want) < c.at
    BY <2>1, <2>2
  <2> QED BY <2>1, <2>2, <2>3
<1>2. ASSUME IInv, NEW u \in 0..written - 1, NEW v \in 0..written - 1,
             u < v, Answering(u) = Answering(v), At(u) # Unknown
      PROVE  At(u) < At(v)
  <2> DEFINE c == origin[u + 1]
  <2>1. origin[v + 1] = c /\ u \in Nat /\ v \in Nat
    BY <1>2, AnsweringIs DEF IInv, Tiles
  <2>2. entries[1].startByte <= u /\ entries[1].startByte <= v
    <3>1. entries[1].startByte <= u
      BY <1>2, AnsweredIsKept
    <3>2. entries[1].startByte \in Nat
      <4>1. entries \in Seq(Entries) /\ 1 \in 1..Len(entries)
        BY <1>2 DEF IInv, Tiles
      <4> QED BY <4>1, EntryIs
    <3> QED BY <1>2, <2>1, <3>1, <3>2
  <2>3. /\ c.at # Unknown /\ c.at \in Nat /\ c.first \in Nat /\ c.n \in Nat
        /\ At(u) = c.at - (c.first + c.n - u)
    BY <1>2, <2>2, AnswerIs
  <2>4. At(v) = c.at - (c.first + c.n - v)
    BY <1>2, <2>1, <2>2, <2>3, AnswerIs
  <2> HIDE DEF c
  <2> QED BY <1>2, <2>1, <2>3, <2>4
<1>3. ASSUME IInv, NEW k \in 1..written, NEW want \in Wanted(k),
             At(want) # Unknown, origin[k].at # Unknown
      PROVE  At(want) >= origin[k].at - Answering(want).n
  <2>1. written \in Nat /\ Len(origin) = written /\ origin \in Seq(Samples)
        /\ k \in Nat /\ k \in 1..Len(origin)
    BY <1>3 DEF IInv, Tiles
  <2>2. origin[k].at \in Nat /\ origin[k].n \in Nat
    BY <2>1, SampleIs
  <2>3. CASE want < written
    <3> DEFINE c == origin[want + 1]
    <3>1. want \in 0..written - 1 /\ want + 1 \in 1..Len(origin) /\ k <= want + 1
      BY <1>3, <2>1, <2>3 DEF Wanted
    <3>2. /\ c.at # Unknown /\ c.at \in Nat /\ c.n \in Nat /\ c.first \in Nat
          /\ c.first <= want /\ At(want) = c.at - (c.first + c.n - want)
      BY <1>3, <3>1, AnswerIs, AnsweredIsKept
    <3>3. origin[k].at <= c.at
      <4>1. CASE k = want + 1
        BY <2>2, <4>1
      <4>2. CASE k < want + 1
        BY <1>3, <2>1, <3>1, <3>2, <4>2 DEF IInv, Forward
      <4> QED BY <2>1, <3>1, <4>1, <4>2
    <3>4. Answering(want) = c
      BY <1>3, <3>1, AnsweringIs
    <3> HIDE DEF c
    <3>5. PICK at \in Nat, n \in Nat, first \in Nat, released \in Nat :
            at = c.at /\ n = c.n /\ first = c.first /\ released = origin[k].at
      BY <2>2, <3>2
    <3>6. At(want) = at - (first + n - want) /\ first <= want /\ want \in Nat
      BY <2>1, <3>1, <3>2, <3>5
    <3>7. released <= at
      BY <3>3, <3>5
    <3>8. At(want) >= released - n
      BY <3>6, <3>7
    <3> QED BY <3>4, <3>5, <3>8
  <2>4. CASE ~(want < written)
    <3>1. want = written /\ k = written
      BY <1>3, <2>1, <2>4 DEF Wanted
    <3>2. At(want) = origin[k].at /\ Answering(want) = origin[k]
      BY <1>3, <2>1, <3>1, NewestAnswers DEF Answering
    <3> QED BY <2>2, <3>2
  <2> QED BY <2>3, <2>4
<1>4. IInv => AnswersAreClose
  BY <1>1, <1>2, <1>3, NewestAnswers DEF AnswersAreClose
<1> QED BY <1>4, InitIInv, NextIInv, PTL DEF Spec
=============================================================================
