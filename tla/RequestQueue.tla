---------------------------- MODULE RequestQueue ----------------------------
(***************************************************************************)
(* What HpaeNoLockQueue promises the HPAE managers: a request that is      *)
(* accepted is run once, and requests run in the order they were accepted. *)
(* The one thread that handles requests takes all there are and runs them. *)
(***************************************************************************)
EXTENDS Sequences, Functions

CONSTANT Request

VARIABLES
  pending,  \* accepted, oldest first
  batch,    \* taken by the handler and still to run
  ran       \* run so far

vars == <<pending, batch, ran>>

Init == pending = <<>> /\ batch = <<>> /\ ran = <<>>

Accept(r) ==
  /\ r \notin Range(pending \o batch \o ran)
  /\ pending' = Append(pending, r)
  /\ UNCHANGED <<batch, ran>>

Take ==
  /\ batch = <<>>
  /\ batch' = pending /\ pending' = <<>>
  /\ UNCHANGED ran

Run ==
  /\ batch # <<>>
  /\ batch' = Tail(batch)
  /\ ran' = Append(ran, Head(batch))
  /\ UNCHANGED pending

Next == (\E r \in Request : Accept(r)) \/ Take \/ Run

Spec == Init /\ [][Next]_vars

=============================================================================
