------------------------------ MODULE Transfer ------------------------------
(***************************************************************************)
(* What a codec promises: the values that went in come out, in order, none *)
(* lost, changed or added, and in the end all of them.                     *)
(***************************************************************************)
EXTENDS Naturals, Sequences

VARIABLES
  sent,         \* the values handed to the encoder
  received      \* the values the decoder has returned

Init == received = <<>>

Deliver ==
  /\ Len(received) < Len(sent)
  /\ received' = Append(received, sent[Len(received) + 1])
  /\ UNCHANGED sent

Spec == Init /\ [][Deliver]_<<sent, received>> /\ WF_<<sent, received>>(Deliver)
=============================================================================
