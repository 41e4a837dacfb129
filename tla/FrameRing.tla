----------------------------- MODULE FrameRing -----------------------------
(***************************************************************************)
(* The ring between the radio task (producer) and the main loop            *)
(* (consumer).  The producer preempts the consumer anywhere, so each call  *)
(* is cut where it touches a variable of the other side; a memcpy is two   *)
(* steps, after the first of which a slot holds halves of two frames.  The *)
(* acquire/release pairs order a slot's bytes against head_ and tail_, so  *)
(* the interleaving of these steps is what the hardware may show.          *)
(***************************************************************************)
EXTENDS Naturals, Sequences

CONSTANTS SLOTS,      \* slots of the ring, one of which stays free
          Frames,     \* frames the radio may receive
          NoFrame     \* what Pop leaves the caller with on an empty ring

ASSUME SlotsAssumption == SLOTS \in Nat /\ SLOTS >= 2
ASSUME FramesAssumption == NoFrame \notin (Frames \X Frames) /\ Frames # {}

VARIABLES head, tail, slots,
          push,   \* the call in progress: where it is, its frame, its result
          pop     \* likewise; copy is the caller's buffer

vars == <<head, tail, slots, push, pop>>

Index == 0 .. SLOTS - 1

Init == /\ head = 0 /\ tail = 0
        /\ slots \in [Index -> Frames \X Frames]
        /\ push \in [at : {"idle"}, frame : Frames, ok : {TRUE}]
        /\ pop \in [at : {"idle"}, copy : Frames \X Frames, out : {NoFrame}]

(* inc without the wrap. *)
inc_NoWrap(i) == i + 1

inc(i) == (i + 1) % SLOTS

(* A Push that never looks at the tail. *)
Full_Unchecked(h) == FALSE

Full(h) == inc(h) = tail
-----------------------------------------------------------------------------
(* Push: the tail is read once; head_ is the producer's own. *)
PushBegin == /\ push.at = "idle"
             /\ \E f \in Frames :
                  push' = IF Full(head)
                          THEN [push EXCEPT !.ok = FALSE]
                          ELSE [push EXCEPT !.at = "first", !.frame = f]
             /\ UNCHANGED <<head, tail, slots, pop>>

PushFirst == /\ push.at = "first"
             /\ slots' = [slots EXCEPT ![head][1] = push.frame]
             /\ push' = [push EXCEPT !.at = "second"]
             /\ UNCHANGED <<head, tail, pop>>

(* A copy that stops before the frame's last bytes. *)
PushSecond_ShortCopy == /\ push.at = "second"
                        /\ push' = [push EXCEPT !.at = "publish"]
                        /\ UNCHANGED <<head, tail, slots, pop>>

PushSecond == /\ push.at = "second"
              /\ slots' = [slots EXCEPT ![head][2] = push.frame]
              /\ push' = [push EXCEPT !.at = "publish"]
              /\ UNCHANGED <<head, tail, pop>>

PushPublish == /\ push.at = "publish"
               /\ head' = inc(head)
               /\ push' = [push EXCEPT !.at = "idle", !.ok = TRUE]
               /\ UNCHANGED <<tail, slots, pop>>

(* Pop: the head is read once; tail_ is the consumer's own. *)
PopBegin == /\ pop.at = "idle"
            /\ pop' = IF tail = head
                      THEN [pop EXCEPT !.out = NoFrame]
                      ELSE [pop EXCEPT !.at = "first"]
            /\ UNCHANGED <<head, tail, slots, push>>

PopFirst == /\ pop.at = "first"
            /\ pop' = [pop EXCEPT !.at = "second",
                                   !.copy = <<slots[tail][1], @[2]>>]
            /\ UNCHANGED <<head, tail, slots, push>>

PopSecond == /\ pop.at = "second"
             /\ pop' = [pop EXCEPT !.at = "release",
                                    !.copy = <<@[1], slots[tail][2]>>]
             /\ UNCHANGED <<head, tail, slots, push>>

PopRelease == /\ pop.at = "release"
              /\ pop' = [pop EXCEPT !.at = "idle", !.out = pop.copy]
              /\ tail' = inc(tail)
              /\ UNCHANGED <<head, slots, push>>

Next == \/ PushBegin \/ PushFirst \/ PushSecond \/ PushPublish
        \/ PopBegin \/ PopFirst \/ PopSecond \/ PopRelease

Spec == Init /\ [][Next]_vars
-----------------------------------------------------------------------------
(* Types: inc keeps both indices inside the slot array. *)
TypeOK == /\ head \in Index /\ tail \in Index
          /\ slots \in [Index -> Frames \X Frames]
          /\ push \in [at : {"idle", "first", "second", "publish"},
                       frame : Frames, ok : BOOLEAN]
          /\ pop \in [at : {"idle", "first", "second", "release"},
                      copy : Frames \X Frames,
                      out : (Frames \X Frames) \union {NoFrame}]

Used == IF head >= tail THEN head - tail ELSE head - tail + SLOTS

Slot(i) == IF tail + i - 1 < SLOTS THEN tail + i - 1 ELSE tail + i - 1 - SLOTS

Queue == [i \in 1 .. Used |-> slots[Slot(i)]]

(* The slot that Push is filling is never the one that Pop is copying out: *)
(* the free slot between tail_ and head_ and the order of the two stores   *)
(* keep the two cores apart without a lock.                                *)
NoSharedSlot == (push.at # "idle" /\ pop.at # "idle") => head # tail

(* The ring is a bounded queue of whole frames: nothing torn, lost,        *)
(* reordered or handed over twice, a frame refused only when SLOTS - 1     *)
(* frames wait, "empty" answered only when none does.                      *)
Fifo == INSTANCE BoundedFifo
          WITH Item <- {<<f, f>> : f \in Frames}, Capacity <- SLOTS - 1,
               NoItem <- NoFrame, queue <- Queue, accepted <- push.ok,
               got <- pop.out

ImplementsFifo == Fifo!Spec
=============================================================================
