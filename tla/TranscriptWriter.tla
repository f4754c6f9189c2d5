-------------------------- MODULE TranscriptWriter ---------------------------
(***************************************************************************)
(* The transcript writer of internal/caption/writer.go: two files written  *)
(* through bufio buffers, flushed by a ticker and by Close.                *)
(*                                                                         *)
(* A line is rendered as two pieces in each file, so that a buffer that    *)
(* overflows can leave half of one on disk.  The writer's mutex makes      *)
(* Write, flush and Close one step each; the disk may fail in any of them. *)
(* What reached a file survives the process, what is in a buffer does not. *)
(***************************************************************************)
EXTENDS Integers, Sequences, SequencesExt

CONSTANTS BufferCap   \* size of a bufio buffer, in pieces

ASSUME WriterAssumption == BufferCap \in Nat /\ BufferCap >= 2

VARIABLES
  txt, jsonl,     \* the two files: [buf, disk, failed]
  closed,         \* Writer.closed
  lines,          \* history: lines handed to the open writer
  linesWritten,   \* metrics: lines_written
  transErr,       \* metrics: has last_write_error been set?
  closeErr        \* did Close return an error?

writerVars == <<txt, jsonl, closed, lines, linesWritten, transErr, closeErr>>

EmptyFile == [buf |-> <<>>, disk |-> <<>>, failed |-> FALSE]

WriterInit ==
  /\ txt = EmptyFile /\ jsonl = EmptyFile
  /\ closed = FALSE /\ lines = <<>>
  /\ linesWritten = 0 /\ transErr = FALSE /\ closeErr = FALSE

Pieces(l) == << <<l, "head">>, <<l, "tail">> >>

\* A file after its first n buffered pieces were written, or only k of them
\* before the disk failed.  A bufio.Writer that failed once fails for good.
Drained(f, n) == [f EXCEPT !.buf = SubSeq(@, n + 1, Len(@)),
                           !.disk = @ \o SubSeq(f.buf, 1, n)]
Drains(f, n) ==
  {Drained(f, n)} \cup {[Drained(f, k) EXCEPT !.failed = TRUE] : k \in 0..n - 1}

\* bufio.Writer.Flush
Flushes(f) == IF f.failed \/ f.buf = <<>> THEN {f} ELSE Drains(f, Len(f.buf))

\* bufio.Writer.Write: a full buffer is written out, in the middle of a line
\* if need be.
Writes(f, l) ==
  LET filled == [f EXCEPT !.buf = @ \o Pieces(l)]
  IN  IF f.failed THEN {f}
      ELSE IF Len(filled.buf) <= BufferCap THEN {filled}
      ELSE Drains(filled, BufferCap)

\* Faulty variants of Write: a failure of transcript.txt does not keep the
\* line from transcript.jsonl; a failure of transcript.jsonl is not reported.
WriteBoth(l) ==
  /\ ~closed
  /\ lines' = Append(lines, l)
  /\ txt' \in Writes(txt, l) /\ jsonl' \in Writes(jsonl, l)
  /\ transErr' = (transErr \/ txt'.failed \/ jsonl'.failed)
  /\ linesWritten' = IF txt'.failed \/ jsonl'.failed THEN linesWritten ELSE linesWritten + 1
  /\ UNCHANGED <<closed, closeErr>>
WriteUnreported(l) ==
  /\ ~closed
  /\ lines' = Append(lines, l)
  /\ txt' \in Writes(txt, l)
  /\ IF txt'.failed THEN UNCHANGED jsonl ELSE jsonl' \in Writes(jsonl, l)
  /\ transErr' = (transErr \/ txt'.failed)
  /\ linesWritten' = IF txt'.failed \/ jsonl'.failed THEN linesWritten ELSE linesWritten + 1
  /\ UNCHANGED <<closed, closeErr>>

\* Write to an open writer: transcript.txt, then transcript.jsonl; the first
\* failure is reported and ends it.
WriteOpen(l) ==
  /\ ~closed
  /\ lines' = Append(lines, l)
  /\ txt' \in Writes(txt, l)
  /\ IF txt'.failed THEN UNCHANGED jsonl ELSE jsonl' \in Writes(jsonl, l)
  /\ LET fails == txt'.failed \/ jsonl'.failed
     IN  /\ transErr' = (transErr \/ fails)
         /\ linesWritten' = IF fails THEN linesWritten ELSE linesWritten + 1
  /\ UNCHANGED <<closed, closeErr>>

\* Write: a closed writer ignores the line.
Write(l) == WriteOpen(l) \/ (closed /\ UNCHANGED writerVars)

\* flush, on every tick while the writer is open.
Tick ==
  /\ ~closed
  /\ txt' \in Flushes(txt) /\ jsonl' \in Flushes(jsonl)
  /\ transErr' = (transErr \/ txt'.failed \/ jsonl'.failed)
  /\ UNCHANGED <<closed, lines, linesWritten, closeErr>>

\* Faulty variant: the files are closed without a last flush.
CloseUnflushed ==
  /\ closed' = TRUE
  /\ UNCHANGED <<txt, jsonl, lines, linesWritten, transErr, closeErr>>

\* Close: flush both buffers and close the files, each of which may fail.
Close ==
  /\ closed' = TRUE
  /\ IF closed THEN UNCHANGED <<txt, jsonl, closeErr>>
     ELSE /\ txt' \in Flushes(txt) /\ jsonl' \in Flushes(jsonl)
          /\ closeErr' \in BOOLEAN
          /\ txt'.failed \/ jsonl'.failed => closeErr'
  /\ UNCHANGED <<lines, linesWritten, transErr>>

-----------------------------------------------------------------------------
\* What a complete file holds.
Rendered(ls) == FlattenSeq([i \in DOMAIN ls |-> Pieces(ls[i])])

\* Whatever fails and whenever the process dies, each file is a beginning of
\* the session's transcript, never with a hole, a repetition or a swap, and
\* no record enters transcript.jsonl that transcript.txt has refused.
FilesFollowTheSession ==
  /\ IsPrefix(txt.disk, Rendered(lines))
  /\ IsPrefix(jsonl.disk, Rendered(lines))
  /\ Len(jsonl.disk \o jsonl.buf) <= Len(txt.disk \o txt.buf)

\* "set once and never cleared, so it stays true for as long as transcript
\* writes are actually failing": while the writer is open the health badge
\* tells exactly whether lines are being lost (Write, flush, metrics.go).
BadgeTellsTheTruth ==
  ~closed => (transErr <=> txt.failed \/ jsonl.failed)

\* A session without a reported error has a complete transcript: closed, the
\* files hold every line and the metrics counted every line.
SilenceMeansComplete ==
  closed /\ ~transErr /\ ~closeErr =>
    /\ txt.disk = Rendered(lines)
    /\ jsonl.disk = Rendered(lines)
    /\ linesWritten = Len(lines)
=============================================================================
