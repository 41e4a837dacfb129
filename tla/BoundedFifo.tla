---------------------------- MODULE BoundedFifo ----------------------------
(***************************************************************************)
(* What the radio task and the main loop rely on: a queue that refuses a   *)
(* frame only when it is full, reports "empty" only when it is, and hands  *)
(* over whole frames in the order in which they were accepted.             *)
(***************************************************************************)
EXTENDS Naturals, Sequences

CONSTANTS Item, Capacity, NoItem

VARIABLES queue,     \* accepted and not yet handed over
          accepted,  \* the answer to the last push
          got        \* the answer to the last pop

fifoVars == <<queue, accepted, got>>

Init == queue = <<>> /\ accepted = TRUE /\ got = NoItem

Accept == /\ Len(queue) < Capacity
          /\ \E f \in Item : queue' = Append(queue, f)
          /\ accepted' = TRUE
          /\ UNCHANGED got

Refuse == /\ Len(queue) = Capacity
          /\ accepted' = FALSE
          /\ UNCHANGED <<queue, got>>

Take == /\ queue # <<>>
        /\ got' = Head(queue)
        /\ queue' = Tail(queue)
        /\ UNCHANGED accepted

Miss == /\ queue = <<>>
        /\ got' = NoItem
        /\ UNCHANGED <<queue, accepted>>

Next == Accept \/ Refuse \/ Take \/ Miss

Spec == Init /\ [][Next]_fifoVars
=============================================================================
