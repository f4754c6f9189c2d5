---------------------------- MODULE TranscriptLog -----------------------------
(***************************************************************************)
(* What a session promises of its transcript, whatever happens to its      *)
(* connections, its disk or its process: lines are made of the segments    *)
(* heard, each once and in order; the files only ever grow, by what the    *)
(* lines say; and a transcript that ends without a complaint is complete.  *)
(*                                                                         *)
(* Session implements it with the transcripts channel, the hub and the     *)
(* writer's two buffers.                                                   *)
(***************************************************************************)
EXTENDS Integers, Sequences, SequencesExt

CONSTANTS Segment,   \* the segments that can be heard
          Text(_)    \* what a file says of a sequence of lines

VARIABLES heard,        \* the segments, as they were accepted
          lines,        \* the lines of the transcript
          txt, jsonl,   \* the files: what a crash would leave of them
          outcome       \* "recording", then "suspect" or "complete"

log == <<heard, lines, txt, jsonl, outcome>>

Init ==
  /\ heard = <<>> /\ lines = <<>> /\ txt = <<>> /\ jsonl = <<>>
  /\ outcome = "recording"

\* Nothing written is ever taken back, and nothing else is written.
Extends(file, new, ls) == IsPrefix(file, new) /\ IsPrefix(new, Text(ls))
FilesGrow == Extends(txt, txt', lines') /\ Extends(jsonl, jsonl', lines')

Hear ==
  /\ outcome = "recording"
  /\ \E s \in Segment : heard' = Append(heard, s)
  /\ UNCHANGED <<lines, txt, jsonl, outcome>>

\* The next segments make a line, never an empty one.
Line ==
  /\ outcome = "recording"
  /\ LET n == Len(FlattenSeq(lines))
     IN  \E k \in 1..(Len(heard) - n) :
           lines' = Append(lines, SubSeq(heard, n + 1, n + k))
  /\ FilesGrow
  /\ UNCHANGED <<heard, outcome>>

Save ==
  /\ outcome = "recording"
  /\ FilesGrow
  /\ UNCHANGED <<heard, lines, outcome>>

End ==
  /\ outcome = "recording"
  /\ outcome' \in {"suspect", "complete"}
  /\ outcome' = "complete" => /\ FlattenSeq(lines) = heard
                              /\ txt' = Text(lines) /\ jsonl' = Text(lines)
  /\ FilesGrow
  /\ UNCHANGED <<heard, lines>>

Next == Hear \/ Line \/ Save \/ End

Spec == Init /\ [][Next]_log
=============================================================================
