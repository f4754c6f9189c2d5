-------------------------------- MODULE Viewer --------------------------------
(***************************************************************************)
(* The typesetter of the viewer page (internal/web/static/index.html): how *)
(* the text of the utterance, which every event carries whole, becomes     *)
(* rows that a reader has half read when the next revision comes.          *)
(*                                                                         *)
(* A word is a sequence of glyphs of width one.  The page is one record:   *)
(*   ledger   every word painted: [text, stale, frozen, last]              *)
(*   start    words before the open utterance                              *)
(*   rows     the rows of the DOM; the last one is open                    *)
(*   width    usableWidth                                                  *)
(*   gliding  rows to be trimmed when the transition ends                  *)
(* and, as history, base (the start the last event found) and split (was a *)
(* word of the utterance cut into chunks).  Colours other than stale, row  *)
(* opacity and the motion itself are left out.  maxRows is fixed: the page *)
(* may also change it while it runs (index.html:519-524, 616-621).         *)
(***************************************************************************)
EXTENDS Integers, Sequences, SequencesExt

CONSTANTS Glyphs,      \* what words are made of
          Texts,       \* texts an utterance can have, sequences of words
          Widths,      \* widths the page can have, the initial one among them
          MaxRows,     \* maxRows
          LedgerCap,   \* LEDGER_CAP
          Finals,      \* bound: finished utterances
          Layouts      \* bound: snapshots and resizes

ASSUME ViewerAssumption ==
  /\ Texts \subseteq Seq(Seq(Glyphs) \ {<<>>})
  /\ Widths \subseteq Nat \ {0} /\ MaxRows \in Nat \ {0}
  /\ LedgerCap \in Nat /\ Finals \in Nat /\ Layouts \in Nat

VARIABLES
  page,             \* the typesetter's state, see above
  said, resized,    \* history: the last text; was it laid out anew since?
  finals, layouts   \* events of either kind so far

vars == <<page, said, resized, finals, layouts>>

Entry(w) == [text |-> w, stale |-> FALSE, frozen |-> FALSE, last |-> FALSE]
TextsOf(entries) == [i \in DOMAIN entries |-> entries[i].text]

RowWidth(row) == IF row = <<>> THEN 0 ELSE Len(FlattenSeq(row)) + Len(row) - 1

TrimRows(rows) ==
  IF Len(rows) > MaxRows + 1 THEN SubSeq(rows, Len(rows) - MaxRows, Len(rows)) ELSE rows

TrimLedger(p) ==
  LET over == Max({Len(p.ledger) - LedgerCap, 0})
  IN  [p EXCEPT !.ledger = SubSeq(@, over + 1, Len(@)),
                !.start = Max({@ - over, 0}), !.base = Max({@ - over, 0})]

FrozenFrom(ledger, first) ==
  [i \in DOMAIN ledger |-> [ledger[i] EXCEPT !.frozen = @ \/ i >= first]]

\* freezeAndGlide: an empty row is never closed.
Freeze(p, animate) ==
  LET open == Last(p.rows)
      rows == Append(p.rows, <<>>)
  IN  IF open = <<>> THEN p
      ELSE [p EXCEPT !.ledger = FrozenFrom(@, Len(@) - Len(open) + 1),
                     !.rows = IF animate THEN rows ELSE TrimRows(rows),
                     !.gliding = animate]

\* placeInRow
Place(p, w) == [p EXCEPT !.ledger = Append(@, Entry(w)),
                         !.rows = Append(Front(@), Append(Last(@), w))]

Chunks(w, width) ==
  [i \in 1..(Len(w) + width - 1) \div width |->
     SubSeq(w, (i - 1) * width + 1, Min({i * width, Len(w)}))]

\* hardSplit, on an empty row.
HardSplit(p, w, animate) ==
  LET put(q, chunk) == Place(Freeze(q, animate), chunk)
  IN  [FoldLeft(put, p, Chunks(w, p.width)) EXCEPT !.split = TRUE]

\* Faulty variant: the space before the word is not measured.
FitsTightly(row, w, width) == Len(FlattenSeq(Append(row, w))) <= width

Fits(row, w, width) == RowWidth(Append(row, w)) <= width

PushWord(p, w, animate) ==
  TrimLedger(IF Fits(Last(p.rows), w, p.width) THEN Place(p, w)
             ELSE IF Len(w) <= p.width THEN Place(Freeze(p, animate), w)
             ELSE HardSplit(Freeze(p, animate), w, animate))

PushAll(p, words, animate) ==
  LET push(q, w) == PushWord(q, w, animate) IN FoldLeft(push, p, words)

\* Faulty variant: a word once stale is never confirmed again.
MarkOnly(entries, frozen, common) ==
  [i \in DOMAIN entries |-> [entries[i] EXCEPT !.stale = @ \/ (i <= frozen /\ i > common)]]

\* Frozen words that the text contradicts turn stale, confirmed ones turn back.
Mark(entries, frozen, common) ==
  [i \in DOMAIN entries |-> [entries[i] EXCEPT !.stale = IF i <= frozen THEN i > common ELSE @]]

\* Open words past the kept ones leave the ledger and the row.
Unplace(p, n) == [p EXCEPT !.ledger = SubSeq(@, 1, Len(@) - n),
                          !.rows = Append(Front(@), SubSeq(Last(@), 1, Len(Last(@)) - n))]

\* The end of an utterance.
CloseUtterance(p, animate) ==
  LET marked == IF Len(p.ledger) = p.start THEN p
                ELSE [p EXCEPT !.ledger[Len(p.ledger)].last = TRUE]
      closed == Freeze(marked, animate)
  IN  [closed EXCEPT !.start = Len(closed.ledger)]

\* applyUtterance
ApplyUtterance(p, text, final, animate) ==
  LET old    == SubSeq(p.ledger, p.start + 1, Len(p.ledger))
      common == Len(LongestCommonPrefix({TextsOf(old), text}))
      frozen == Max({n \in 0..Len(old) : \A i \in 1..n : old[i].frozen})
      keep   == Max({common, frozen})
      marked == [p EXCEPT !.ledger = SubSeq(@, 1, p.start) \o Mark(old, frozen, common),
                          !.base = p.start,
                          !.split = @ /\ p.base = p.start]
      pushed == PushAll(Unplace(marked, Len(old) - keep),
                        SubSeq(text, keep + 1, Len(text)), animate)
  IN  TrimLedger(IF final THEN CloseUtterance(pushed, animate) ELSE pushed)

\* rebuild: the body of its loop, the loop, what it freezes, and the whole.
RowsWith(rows, e, width) ==
  LET opened == IF Last(rows) = <<>> \/ Fits(Last(rows), e.text, width) THEN rows
                ELSE Append(rows, <<>>)
      placed == Append(Front(opened), Append(Last(opened), e.text))
  IN  IF e.last THEN Append(placed, <<>>) ELSE placed

RebuiltRows(ledger, width) ==
  LET put(rows, e) == RowsWith(rows, e, width) IN FoldLeft(put, << <<>> >>, ledger)

FrozenUpto(ledger, n) ==
  [i \in DOMAIN ledger |-> [ledger[i] EXCEPT !.frozen = i <= n]]

Rebuild(p) ==
  LET rows == RebuiltRows(p.ledger, p.width)
  IN  [p EXCEPT !.ledger = FrozenUpto(@, Len(@) - Len(Last(rows))),
                !.rows = TrimRows(rows), !.gliding = FALSE]

BlankPage(width) ==
  [ledger |-> <<>>, start |-> 0, rows |-> << <<>> >>, width |-> width,
   gliding |-> FALSE, base |-> 0, split |-> FALSE]

-----------------------------------------------------------------------------
Init ==
  /\ \E width \in Widths : page = BlankPage(width)
  /\ said = <<>> /\ resized = FALSE /\ finals = 0 /\ layouts = 0

\* Faulty variant: every event lays the page out anew.
ApplyAndReflow(text, final) ==
  /\ page' = Rebuild(ApplyUtterance(page, text, final, TRUE))
  /\ said' = text /\ resized' = (resized /\ page.base = page.start)

\* es.onmessage for "interim" and "final".
Apply(text, final) ==
  /\ page' = ApplyUtterance(page, text, final, TRUE)
  /\ said' = text /\ resized' = (resized /\ page.base = page.start)

Interim(text) ==
  /\ Apply(text, FALSE)
  /\ UNCHANGED <<finals, layouts>>

Final(text) ==
  /\ finals < Finals
  /\ Apply(text, TRUE)
  /\ finals' = finals + 1
  /\ UNCHANGED layouts

\* es.onmessage for "snapshot": resetAll, the history, the pending text.
Snapshot(line, pending) ==
  /\ layouts < Layouts
  /\ LET settled == ApplyUtterance(BlankPage(page.width), line, TRUE, FALSE)
     IN  page' = ApplyUtterance(settled, pending, FALSE, FALSE)
  /\ said' = pending /\ resized' = FALSE
  /\ layouts' = layouts + 1
  /\ UNCHANGED finals

\* retypeset, after a resize or a rotation.
Retypeset(width) ==
  /\ layouts < Layouts
  /\ page' = Rebuild([page EXCEPT !.width = width])
  /\ resized' = TRUE
  /\ layouts' = layouts + 1
  /\ UNCHANGED <<said, finals>>

\* transitionend
GlideEnds ==
  /\ page.gliding
  /\ page' = [page EXCEPT !.rows = TrimRows(@), !.gliding = FALSE]
  /\ UNCHANGED <<said, resized, finals, layouts>>

Next ==
  \/ \E text \in Texts : Interim(text) \/ Final(text)
  \/ \E line \in Texts, pending \in Texts \cup {<<>>} : Snapshot(line, pending)
  \/ \E width \in Widths : Retypeset(width)
  \/ GlideEnds

Spec == Init /\ [][Next]_vars

-----------------------------------------------------------------------------
\* "a word, once painted, never changes font, never moves sideways, and never
\* moves down": short of a snapshot or a resize no event touches a closed
\* row, it only goes off at the top; and words of the open row that the text
\* confirms stay where they are (pushWord, freezeAndGlide, trimRows).
PaintedStays ==
  [][layouts' = layouts =>
       LET closed    == Front(page.rows)
           open      == Last(page.rows)
           old       == SubSeq(page.ledger, page.start + 1, Len(page.ledger))
           confirmed == Len(LongestCommonPrefix({TextsOf(old), said'}))
           kept      == Max({Len(open) - (Len(old) - confirmed), 0})
       IN  \E k \in 0..Len(closed) :
             /\ IsPrefix(SubSeq(closed, k + 1, Len(closed)), page'.rows)
             /\ Len(page'.rows) > Len(closed) - k
             /\ IsPrefix(SubSeq(open, 1, kept), page'.rows[Len(closed) - k + 1])
             /\ k = 0 \/ Len(page'.rows) = MaxRows + 1]_vars

\* The screen shows the last text: each of the utterance's words is the
\* text's word in that place or marked stale, none is missing at the end, and
\* (short of a resize) only words after a contradiction are stale.  A word
\* cut into chunks breaks this, see the README.
HypothesisShown ==
  LET shown == SubSeq(page.ledger, page.base + 1, Len(page.ledger))
      agree(i) == i <= Len(said) /\ shown[i].text = said[i]
  IN  ~page.split =>
        /\ Len(shown) >= Len(said)
        /\ \A i \in DOMAIN shown :
             IF shown[i].stale THEN resized \/ \E j \in 1..i : ~agree(j) ELSE agree(i)

\* The rows are the end of the ledger, the open row is just its words that
\* may still be revised, and no row is wider than the page but a lone word.
ScreenIsTheLedger ==
  LET texts == TextsOf(page.ledger)
      open  == Last(page.rows)
  IN  /\ IsSuffix(FlattenSeq(page.rows), texts) \/ IsSuffix(texts, FlattenSeq(page.rows))
      /\ \A i \in DOMAIN page.ledger :
           page.ledger[i].frozen <=> i <= Len(page.ledger) - Len(open)
      /\ \A i \in DOMAIN page.rows :
           RowWidth(page.rows[i]) <= page.width \/ Len(page.rows[i]) = 1
=============================================================================
