----------------------------- MODULE FrameCounter -----------------------------
(***************************************************************************)
(* The 64-bit frame counter of the AEAD: it seeds the sender's nonces, and *)
(* the receiver's replay window lets each value through once.              *)
(*                                                                         *)
(* The sender.  LinkLayer::Encode counts up, saves the counter to flash    *)
(* once in every persist_stride frames, and seals a frame under it;        *)
(* ApplyLinkConfig, at boot and after an AT command, starts again from the *)
(* saved value plus one stride and saves that.  A power cut may fall       *)
(* between any two of these steps, and only the flash survives it.         *)
(*                                                                         *)
(* The receiver.  rx_window_ is a machine word: bit d stands for the       *)
(* counter d below the highest one accepted, and a shift loses the bits    *)
(* pushed off its end.  Frames may come late, out of order and more than   *)
(* once; the window is dropped when the sender's epoch changes, which the  *)
(* random epoch of a restarted sender need not do.                         *)
(***************************************************************************)
EXTENDS Integers

CONSTANTS
    Stride,       \* LINK_CTR_STRIDE, 256 in the firmware
    Width,        \* bits of rx_window_, 64 in the firmware
    MaxCounter    \* bound: no counter and no floor goes above it

ASSUME StrideAssumption == Stride \in Nat \ {0}
ASSUME WidthAssumption == Width \in Nat \ {0}
ASSUME BoundAssumption == MaxCounter \in Nat

VARIABLES
    pc,           \* where the sender's firmware is: Steps
    txctr,        \* the value of the key "txctr" in its flash
    start,        \* lc.start_ctr
    tx_ctr,       \* tx_ctr64_
    persisted,    \* last_persist_
    sealed,       \* history: the counters frames were sealed under, all boots
    reused,       \* history: some counter sealed a second frame
    rx_ctr_init,  \* rx_ctr_init_: the receiver's window has been seeded
    rx_ctr_max,   \* rx_ctr_max_
    rx_window,    \* rx_window_, as the set of its 1 bits
    accepted      \* history: the counters let through since it was seeded

sender == <<pc, txctr, start, tx_ctr, persisted, sealed, reused>>
receiver == <<rx_ctr_init, rx_ctr_max, rx_window, accepted>>
vars == <<sender, receiver>>

\* off and unconfigured, floor read, link running, counter taken, ready to seal
Steps == {"off", "floor", "run", "counted", "seal"}
Bits == 0..Width - 1

Init ==
    /\ pc = "off" /\ txctr = 0
    /\ start = 0 /\ tx_ctr = 0 /\ persisted = 0
    /\ sealed = {} /\ reused = FALSE
    /\ rx_ctr_init = FALSE /\ rx_ctr_max = 0
    /\ rx_window = {} /\ accepted = {}

(***************************************************************************)
(* ApplyLinkConfig: the floor is read, a stride is added, the new floor is *)
(* saved, and only then does the link start from it.                       *)
(***************************************************************************)
ReadFloor ==
    /\ pc = "off" /\ pc' = "floor"
    /\ txctr + Stride <= MaxCounter
    /\ start' = txctr + Stride
    /\ UNCHANGED <<txctr, tx_ctr, persisted, sealed, reused, receiver>>

\* Mutant of SaveFloor: the new floor is not saved.
SaveFloor_NotSaved ==
    /\ pc = "floor" /\ pc' = "run"
    /\ tx_ctr' = start /\ persisted' = start
    /\ UNCHANGED <<txctr, start, sealed, reused, receiver>>

SaveFloor ==
    /\ pc = "floor" /\ pc' = "run"
    /\ txctr' = start
    /\ tx_ctr' = start /\ persisted' = start
    /\ UNCHANGED <<start, sealed, reused, receiver>>

\* An AT command calls ApplyLinkConfig again, with the link running.
Reconfigure ==
    /\ pc = "run" /\ pc' = "off"
    /\ UNCHANGED <<txctr, start, tx_ctr, persisted, sealed, reused, receiver>>

(***************************************************************************)
(* Encode: ++tx_ctr64_, MaybePersist, then the frame is sealed.            *)
(***************************************************************************)
Count ==
    /\ pc = "run" /\ tx_ctr < MaxCounter
    /\ pc' = "counted"
    /\ tx_ctr' = tx_ctr + 1
    /\ UNCHANGED <<txctr, start, persisted, sealed, reused, receiver>>

DueToSave == tx_ctr - persisted >= Stride

\* Mutant of MaybePersist: one frame too late.
MaybePersist_OneLate ==
    LET due == tx_ctr - persisted > Stride IN
    /\ pc = "counted" /\ pc' = "seal"
    /\ txctr' = IF due THEN tx_ctr ELSE txctr
    /\ persisted' = IF due THEN tx_ctr ELSE persisted
    /\ UNCHANGED <<start, tx_ctr, sealed, reused, receiver>>

MaybePersist ==
    /\ pc = "counted" /\ pc' = "seal"
    /\ txctr' = IF DueToSave THEN tx_ctr ELSE txctr
    /\ persisted' = IF DueToSave THEN tx_ctr ELSE persisted
    /\ UNCHANGED <<start, tx_ctr, sealed, reused, receiver>>

Seal ==
    /\ pc = "seal" /\ pc' = "run"
    /\ sealed' = sealed \cup {tx_ctr}
    /\ reused' = (reused \/ tx_ctr \in sealed)
    /\ UNCHANGED <<txctr, start, tx_ctr, persisted, receiver>>

\* The power fails, or the firmware reboots itself: RAM is lost.
PowerCut ==
    /\ pc # "off" /\ pc' = "off"
    /\ start' = 0 /\ tx_ctr' = 0 /\ persisted' = 0
    /\ UNCHANGED <<txctr, sealed, reused, receiver>>

\* Mutant of Shifted: the word is not shifted at all.
Shifted_Not(d) == rx_window

\* rx_window_ << d, with the test that keeps the shift below the word's width
Shifted(d) == IF d >= Width THEN {} ELSE {b \in Bits : b - d \in rx_window}

Bit(ctr) == rx_ctr_max - ctr

\* Mutant of ReplayOk: a counter one past the window's end is let through.
ReplayOk_Wider(ctr) ==
    \/ ~rx_ctr_init
    \/ ctr > rx_ctr_max
    \/ Bit(ctr) <= Width /\ Bit(ctr) \notin rx_window

\* What ReplayOk returns
ReplayOk(ctr) ==
    \/ ~rx_ctr_init
    \/ ctr > rx_ctr_max
    \/ Bit(ctr) < Width /\ Bit(ctr) \notin rx_window

(***************************************************************************)
(* ReplayOk on the counter of a frame whose tag verified, its three ways   *)
(* to accept and its refusal.                                              *)
(***************************************************************************)
Seed(ctr) ==
    /\ ~rx_ctr_init
    /\ rx_ctr_init' = TRUE /\ rx_ctr_max' = ctr /\ rx_window' = {0}

Advance(ctr) ==
    /\ rx_ctr_init /\ ctr > rx_ctr_max
    /\ rx_window' = Shifted(ctr - rx_ctr_max) \cup {0}
    /\ rx_ctr_max' = ctr
    /\ UNCHANGED rx_ctr_init

Late(ctr) ==
    /\ rx_ctr_init /\ ctr <= rx_ctr_max
    /\ rx_window' = rx_window \cup {Bit(ctr)}
    /\ UNCHANGED <<rx_ctr_init, rx_ctr_max>>

Accept(ctr) ==
    /\ ReplayOk(ctr)
    /\ Seed(ctr) \/ Advance(ctr) \/ Late(ctr)
    /\ accepted' = accepted \cup {ctr}
    /\ UNCHANGED sender

\* A frame brought a new epoch (OnRx clears rx_ctr_init_ and nothing else).
PeerReset ==
    /\ rx_ctr_init' = FALSE /\ accepted' = {}
    /\ UNCHANGED <<rx_ctr_max, rx_window, sender>>

Boot == ReadFloor \/ SaveFloor
Encode == Count \/ MaybePersist \/ Seal
Receive == PeerReset \/ \E ctr \in sealed : Accept(ctr)
Next == Boot \/ Reconfigure \/ Encode \/ PowerCut \/ Receive

Spec == Init /\ [][Next]_vars

-----------------------------------------------------------------------------
(***************************************************************************)
(* No two frames are ever sealed under one counter, whenever the power is  *)
(* cut: Encode's save comes before the frame it covers, and the stride     *)
(* that ApplyLinkConfig skips covers the frames since the last save.       *)
(***************************************************************************)
NoReuse == ~reused

(***************************************************************************)
(* A sender that lost power is heard again at once: the first counter of   *)
(* its next boot passes the peer's window, also when the new random epoch  *)
(* happens to be the old one and the window was kept.                      *)
(***************************************************************************)
RestartIsHeard == ReplayOk(txctr + Stride + 1)

(***************************************************************************)
(* Once and no more: a counter that was let through is refused from then   *)
(* on (linklayer.h: "Accepts a counter once; rejects anything already seen *)
(* or older than the 64-frame window").                                    *)
(***************************************************************************)
AcceptedOnce == \A ctr \in accepted : ~ReplayOk(ctr)

(***************************************************************************)
(* A frame that was overtaken is not taken for a replay: a counter never   *)
(* accepted is refused only when it is a full window behind the highest.   *)
(***************************************************************************)
LateIsAccepted ==
    \A ctr \in sealed \ accepted :
        ctr > rx_ctr_max - Width => ReplayOk(ctr)

(***************************************************************************)
(* ReplayOk's word is neither too strict nor too lax, across the seeding   *)
(* and shifts of a whole word and more.                                    *)
(***************************************************************************)
WindowIsExact == AcceptedOnce /\ LateIsAccepted

(***************************************************************************)
(* The inductive invariant.  The sender: what is in flash, plus a stride,  *)
(* is above every counter used; while the link runs, the saved value is    *)
(* the one MaybePersist measures from, less than a stride below the        *)
(* counter; while it boots, the floor just read is one stride above the    *)
(* flash.  The receiver: once seeded, the bits of the word are exactly the *)
(* distances of the accepted counters that lie in the window.              *)
(***************************************************************************)
TypeOK ==
    /\ pc \in Steps
    /\ txctr \in Nat /\ start \in Nat /\ tx_ctr \in Nat /\ persisted \in Nat
    /\ sealed \in SUBSET Nat
    /\ reused \in BOOLEAN
    /\ rx_ctr_init \in BOOLEAN
    /\ rx_ctr_max \in Nat
    /\ rx_window \in SUBSET Bits
    /\ accepted \in SUBSET sealed

Running == pc \in {"run", "counted", "seal"}

NextBootIsFresh == \A c \in sealed : c < txctr + Stride

InvRunning ==
    Running => /\ persisted = txctr
               /\ tx_ctr >= persisted
               /\ tx_ctr - persisted < Stride + (IF pc = "counted" THEN 1 ELSE 0)
               /\ \A c \in sealed : IF pc = "run" THEN c <= tx_ctr ELSE c < tx_ctr
InvFloor == pc = "floor" => start = txctr + Stride

WindowIsHistory ==
    rx_ctr_init =>
        /\ rx_ctr_max \in accepted
        /\ \A ctr \in accepted : ctr <= rx_ctr_max
        /\ \A b \in Bits : b \in rx_window <=> rx_ctr_max - b \in accepted

SeededOrEmpty == rx_ctr_init \/ accepted = {}

(* The inductive invariant itself: types, Encode's and ApplyLinkConfig's    *)
(* hold on the flash, and ReplayOk's word as the history of what it let by. *)
IInv == /\ TypeOK
        /\ NextBootIsFresh /\ InvRunning /\ InvFloor /\ NoReuse
        /\ WindowIsHistory /\ SeededOrEmpty
=============================================================================
