----------------------------- MODULE SerialPipe -----------------------------
(***************************************************************************)
(* What the link promises each direction of a "reliable, ordered           *)
(* byte-stream": the reading host is given the chunks the writing host     *)
(* wrote, in order, once each, and eventually all of them.  fed counts the *)
(* chunks written (the k-th is the number k), out is what was delivered.   *)
(***************************************************************************)
EXTENDS Naturals, Sequences

VARIABLES fed, out

(* Whatever was written before has been delivered. *)
Init == fed \in Nat /\ out = [i \in 1 .. fed |-> i]

Write == fed' = fed + 1 /\ UNCHANGED out

Deliver ==
  /\ \E k \in 1 .. fed - Len(out) :
       out' = out \o [i \in 1 .. k |-> Len(out) + i]
  /\ UNCHANGED fed

Next == Write \/ Deliver

Spec == Init /\ [][Next]_<<fed, out>>

LiveSpec == Spec /\ WF_<<fed, out>>(Deliver)
=============================================================================
