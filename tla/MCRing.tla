------------------------------- MODULE MCRing -------------------------------
(***************************************************************************)
(* OHAudioBuffer checked against FrameFifo.  A span leaves the FIFO when   *)
(* its slots have been cleared and gives its room back when curReadFrame   *)
(* is stored.                                                              *)
(***************************************************************************)
EXTENDS OHAudioBufferInv, Sequences

InService ==
  IF \E p \in Reader : pc[p] \in Cleared
    THEN len[CHOOSE p \in Reader : pc[p] \in Cleared] ELSE 0

First == curReadFrame + InService

Queued == [i \in 1..(curWriteFrame - First) |-> slot[(First + i - 1) % Total]]

Fifo == INSTANCE FrameFifo WITH
  Capacity <- Total, queued <- Queued, taken <- InService,
  written <- curWriteFrame

\* The lap arithmetic over three atomics and the clearing of played slots
\* are together a bounded FIFO of the frames the client wrote: nothing is
\* lost, repeated, reordered or overwritten.
ImplementsFifo == Fifo!Spec

=============================================================================
