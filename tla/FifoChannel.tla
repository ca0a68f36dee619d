---------------------------- MODULE FifoChannel ----------------------------
(***************************************************************************)
(* What a reliable, KEEP_ALL topic promises its applications: the samples  *)
(* written are taken in the order of writing, each exactly once, with a    *)
(* bound on those underway; and what was written is taken in the end.      *)
(***************************************************************************)
EXTENDS Integers

CONSTANT Capacity

VARIABLES sent, received        \* how many samples have been written, and taken

Init == sent = 0 /\ received = 0

Send == sent - received < Capacity /\ sent' = sent + 1 /\ UNCHANGED received

Receive == received < sent /\ received' = received + 1 /\ UNCHANGED sent

vars == <<sent, received>>

Spec == Init /\ [][Send \/ Receive]_vars

FairSpec == Spec /\ WF_vars(Receive)
=============================================================================
