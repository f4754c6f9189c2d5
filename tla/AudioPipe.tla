------------------------------ MODULE AudioPipe -------------------------------
(***************************************************************************)
(* What an engine promises of the audio between the source and the         *)
(* recognizer, whatever its connections do: a queue of bounded length that *)
(* takes every frame, delivers in order and each frame at most once, and   *)
(* that gives up, when it must, one of the two oldest frames it holds (the *)
(* one being sent and the one next in line), never a newer one.            *)
(*                                                                         *)
(* DeepgramEngine implements it with the pump, the ring and the writer.    *)
(***************************************************************************)
EXTENDS Integers, Sequences

CONSTANT Capacity   \* frames held at most

VARIABLES offered,    \* frames taken so far; a frame is its number
          queue,      \* the frames held, oldest first
          delivered   \* the frames delivered, in the order of delivery

pipe == <<offered, queue, delivered>>

Init == offered = 0 /\ queue = <<>> /\ delivered = <<>>

Take ==
  /\ Len(queue) < Capacity
  /\ offered' = offered + 1
  /\ queue' = Append(queue, offered + 1)
  /\ UNCHANGED delivered

Deliver ==
  /\ queue # <<>>
  /\ delivered' = Append(delivered, Head(queue))
  /\ queue' = Tail(queue)
  /\ UNCHANGED offered

\* The oldest frame, or the one after it.
GiveUp ==
  /\ \/ Len(queue) > 0 /\ queue' = Tail(queue)
     \/ Len(queue) > 1 /\ queue' = <<Head(queue)>> \o Tail(Tail(queue))
  /\ UNCHANGED <<offered, delivered>>

Next == Take \/ Deliver \/ GiveUp

Spec == Init /\ [][Next]_pipe
=============================================================================
