----------------------------- MODULE FrameFifo -----------------------------
(***************************************************************************)
(* What the playback ring promises: a bounded FIFO of frames.  The client  *)
(* appends frames, the server removes them from the front, to play or to   *)
(* discard them, and the room they took is given back afterwards.  Neither *)
(* lap counting nor the data area is visible.                              *)
(***************************************************************************)
EXTENDS Naturals, Sequences

CONSTANT Capacity

VARIABLES
  queued,   \* numbers of the frames written and not yet taken
  taken,    \* frames taken whose room is not given back yet
  written   \* frames written so far

fifoVars == <<queued, taken, written>>

Init == queued = <<>> /\ taken = 0 /\ written = 0

Put(n) ==
  /\ Len(queued) + taken + n <= Capacity
  /\ queued' = queued \o [i \in 1..n |-> written + i - 1]
  /\ written' = written + n
  /\ taken' = taken

Take(n) ==
  /\ taken = 0
  /\ queued' = SubSeq(queued, n + 1, Len(queued))
  /\ taken' = n
  /\ written' = written

GiveBack ==
  /\ taken > 0 /\ taken' = 0
  /\ UNCHANGED <<queued, written>>

Next ==
  \/ \E n \in 1..Capacity : Put(n)
  \/ \E n \in 1..Len(queued) : Take(n)
  \/ GiveBack

Spec == Init /\ [][Next]_fifoVars

=============================================================================
