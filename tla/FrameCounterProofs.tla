------------------------- MODULE FrameCounterProofs -------------------------
(***************************************************************************)
(* For every stride, every width of the replay word and every bound: no    *)
(* counter is sealed twice, none is accepted twice, none is refused        *)
(* without reason, and a sender that lost power is heard again.            *)
(*                                                                         *)
(* The sender's argument: while the link runs, the flash holds the counter *)
(* of the last save, and MaybePersist lets the counter run less than one   *)
(* stride past it before the next frame is sealed.  What a power cut       *)
(* leaves in flash, plus the stride a boot adds, is therefore above every  *)
(* counter sealed.                                                         *)
(*                                                                         *)
(* The receiver's: the bits are exactly the accepted counters seen from    *)
(* the highest one.  Advancing by d moves every counter d bits up, so bit  *)
(* b of the new word is bit b - d of the old one; a shift of a full word   *)
(* or more leaves none, and no accepted counter is then in the window.     *)
(***************************************************************************)
EXTENDS FrameCounter, TLAPS

USE StrideAssumption, WidthAssumption, BoundAssumption

SenderOK == /\ pc \in Steps
            /\ txctr \in Nat /\ start \in Nat /\ tx_ctr \in Nat /\ persisted \in Nat
            /\ sealed \in SUBSET Nat
            /\ reused \in BOOLEAN
ReceiverOK == /\ rx_ctr_init \in BOOLEAN
              /\ rx_ctr_max \in Nat
              /\ rx_window \in SUBSET Bits
              /\ accepted \in SUBSET sealed

SenderInv == SenderOK /\ NextBootIsFresh /\ InvRunning /\ InvFloor /\ NoReuse
ReceiverInv == ReceiverOK /\ WindowIsHistory /\ SeededOrEmpty

(* The invariant is one part about Encode and the flash and one about      *)
(* ReplayOk.                                                               *)
LEMMA TwoHalves == IInv <=> SenderInv /\ ReceiverInv
  BY DEF IInv, SenderInv, ReceiverInv, TypeOK, SenderOK, ReceiverOK

(***************************************************************************)
(* What the shifted word holds: bit b is the old bit b - d.                *)
(***************************************************************************)
LEMMA ShiftedBits ==
  ASSUME ReceiverOK, NEW d \in Nat, NEW b \in Bits
  PROVE  b \in Shifted(d) <=> b - d \in rx_window
  <1>1. CASE d >= Width
    <2>1. b - d \notin Bits
      BY <1>1 DEF Bits
    <2>2. QED
      BY <1>1, <2>1 DEF Shifted, ReceiverOK
  <1>2. CASE ~(d >= Width)
    BY <1>2 DEF Shifted
  <1>3. QED
    BY <1>1, <1>2

(***************************************************************************)
(* A device fresh from the factory and an empty window satisfy it.         *)
(***************************************************************************)
LEMMA InvInit == Init => IInv
  <1> SUFFICES ASSUME Init PROVE SenderInv /\ ReceiverInv
    BY TwoHalves
  <1>1. reused \in BOOLEAN /\ rx_ctr_init \in BOOLEAN
    BY DEF Init
  <1>2. SenderOK
    BY <1>1 DEF Init, SenderOK, Steps
  <1>3. ReceiverOK
    BY <1>1 DEF Init, ReceiverOK
  <1>4. NextBootIsFresh /\ InvRunning /\ InvFloor
    BY DEF Init, NextBootIsFresh, InvRunning, Running, InvFloor
  <1>5. NoReuse /\ WindowIsHistory /\ SeededOrEmpty
    BY DEF Init, NoReuse, WindowIsHistory, SeededOrEmpty
  <1>6. QED
    BY <1>2, <1>3, <1>4, <1>5 DEF SenderInv, ReceiverInv

(***************************************************************************)
(* Every step of boot, encoding or power cut preserves the sender's half.  *)
(***************************************************************************)
LEMMA SenderStep ==
  ASSUME SenderInv, Boot \/ Reconfigure \/ Encode \/ PowerCut
  PROVE  SenderInv'
  <1> USE DEF SenderInv, SenderOK, Steps, NextBootIsFresh, InvRunning, InvFloor,
              Running, NoReuse
  <1>1. CASE ReadFloor
    BY <1>1 DEF ReadFloor
  <1>2. CASE SaveFloor
    <2>1. /\ pc = "floor" /\ pc' = "run"
          /\ txctr' = txctr + Stride
          /\ tx_ctr' = txctr' /\ persisted' = txctr'
          /\ start' = start /\ sealed' = sealed /\ reused' = reused
      BY <1>2 DEF SaveFloor
    <2>2. \A c \in sealed : c < txctr'
      BY <2>1
    <2>3. NextBootIsFresh'
      BY <2>1, <2>2
    <2>4. InvRunning'
      BY <2>1, <2>2
    <2>5. QED
      BY <2>1, <2>3, <2>4
  <1>3. CASE Reconfigure
    BY <1>3 DEF Reconfigure
  <1>4. CASE Count
    BY <1>4 DEF Count
  <1>5. CASE MaybePersist
    <2>1. CASE DueToSave
      <3>1. /\ pc = "counted" /\ pc' = "seal"
            /\ txctr' = tx_ctr /\ persisted' = tx_ctr /\ tx_ctr' = tx_ctr
            /\ start' = start /\ sealed' = sealed /\ reused' = reused
        BY <1>5, <2>1 DEF MaybePersist
      <3>2. \A c \in sealed : c < tx_ctr
        BY <3>1
      <3>3. QED
        BY <3>1, <3>2
    <2>2. CASE ~DueToSave
      BY <1>5, <2>2 DEF MaybePersist, DueToSave
    <2>3. QED
      BY <2>1, <2>2
  <1>6. CASE Seal
    <2>1. /\ pc = "seal" /\ pc' = "run"
          /\ sealed' = sealed \cup {tx_ctr}
          /\ reused' = (reused \/ tx_ctr \in sealed)
          /\ txctr' = txctr /\ start' = start
          /\ tx_ctr' = tx_ctr /\ persisted' = persisted
      BY <1>6 DEF Seal
    <2>2. \A c \in sealed : c < tx_ctr
      BY <2>1
    <2>3. tx_ctr \notin sealed
      BY <2>2
    <2>4. NoReuse'
      BY <2>1, <2>3
    <2>5. NextBootIsFresh'
      BY <2>1
    <2>6. InvRunning'
      BY <2>1, <2>2
    <2>7. QED
      BY <2>1, <2>4, <2>5, <2>6
  <1>7. CASE PowerCut
    BY <1>7 DEF PowerCut
  <1>8. QED
    BY <1>1, <1>2, <1>3, <1>4, <1>5, <1>6, <1>7 DEF Boot, Encode

(***************************************************************************)
(* Seeding, advancing and a late frame preserve the receiver's half.       *)
(***************************************************************************)
LEMMA ReceiverStep ==
  ASSUME ReceiverInv, SenderOK, NEW ctr \in sealed, Accept(ctr)
  PROVE  ReceiverInv'
  <1> USE DEF ReceiverInv, SeededOrEmpty
  <1>0. ctr \in Nat /\ sealed' = sealed
    BY DEF SenderOK, Accept, sender
  <1> USE <1>0
  <1>1. accepted' = accepted \cup {ctr}
    BY DEF Accept
  <1>2. CASE Seed(ctr)
    <2>1. accepted = {} /\ accepted' = {ctr}
      BY <1>1, <1>2 DEF Seed
    <2>2. ReceiverOK'
      BY <1>2, <2>1 DEF Seed, ReceiverOK, Bits
    <2>3. WindowIsHistory'
      BY <1>2, <2>1 DEF Seed, WindowIsHistory, Bits
    <2>4. QED
      BY <1>2, <2>2, <2>3 DEF Seed
  <1>3. CASE Advance(ctr)
    <2> DEFINE d == ctr - rx_ctr_max
    <2>1. /\ rx_ctr_init /\ rx_ctr_init'
          /\ rx_ctr_max' = ctr
          /\ rx_window' = Shifted(d) \cup {0}
          /\ d \in Nat \ {0}
      BY <1>3 DEF Advance, ReceiverOK
    <2>2. ReceiverOK'
      <3>1. Shifted(d) \in SUBSET Bits
        BY DEF Shifted
      <3>2. QED
        BY <1>1, <2>1, <3>1 DEF ReceiverOK, Bits
    <2>3. \A c \in accepted' : c <= rx_ctr_max'
      BY <1>1, <2>1 DEF WindowIsHistory, ReceiverOK
    <2>4. ASSUME NEW b \in Bits
          PROVE  b \in rx_window' <=> rx_ctr_max' - b \in accepted'
      <3>1. b \in Shifted(d) <=> b - d \in rx_window
        BY <2>1, ShiftedBits
      <3>2. b - d \in rx_window <=> b - d \in Bits /\ rx_ctr_max - (b - d) \in accepted
        BY <2>1 DEF ReceiverOK, WindowIsHistory
      <3>3. rx_ctr_max - (b - d) = rx_ctr_max' - b
        BY <2>1 DEF ReceiverOK, Bits
      <3>4. b - d \notin Bits => rx_ctr_max' - b \notin accepted
        BY <2>1, <3>3 DEF WindowIsHistory, Bits, ReceiverOK
      <3>5. b = 0 <=> rx_ctr_max' - b = ctr
        BY <2>1 DEF Bits
      <3>6. QED
        BY <1>1, <2>1, <3>1, <3>2, <3>3, <3>4, <3>5
    <2>5. WindowIsHistory'
      BY <1>1, <2>1, <2>3, <2>4 DEF WindowIsHistory, Bits
    <2>6. QED
      BY <2>1, <2>2, <2>5
  <1>4. CASE Late(ctr)
    <2>1. /\ rx_ctr_init /\ rx_ctr_init'
          /\ rx_ctr_max' = rx_ctr_max
          /\ rx_window' = rx_window \cup {rx_ctr_max - ctr}
          /\ ctr <= rx_ctr_max /\ rx_ctr_max - ctr < Width
      BY <1>4 DEF Late, Accept, ReplayOk, Bit, ReceiverOK
    <2>2. ReceiverOK'
      BY <1>1, <2>1 DEF ReceiverOK, Bits
    <2>3. ASSUME NEW b \in Bits
          PROVE  b \in rx_window' <=> rx_ctr_max' - b \in accepted'
      <3>1. b = rx_ctr_max - ctr <=> rx_ctr_max - b = ctr
        BY DEF Bits, ReceiverOK
      <3>2. b \in rx_window <=> rx_ctr_max - b \in accepted
        BY <2>1 DEF WindowIsHistory
      <3>3. QED
        BY <1>1, <2>1, <3>1, <3>2
    <2>4. WindowIsHistory'
      BY <1>1, <2>1, <2>3 DEF WindowIsHistory
    <2>5. QED
      BY <2>1, <2>2, <2>4
  <1>5. QED
    BY <1>2, <1>3, <1>4 DEF Accept

(***************************************************************************)
(* The invariant holds in every reachable state.                           *)
(***************************************************************************)
LEMMA InvStep == IInv /\ [Next]_vars => IInv'
  <1> SUFFICES ASSUME SenderInv, ReceiverInv, [Next]_vars
               PROVE  SenderInv' /\ ReceiverInv'
    <2>1. IInv' <=> SenderInv' /\ ReceiverInv'
      BY DEF IInv, SenderInv, ReceiverInv, TypeOK, SenderOK, ReceiverOK
    <2>2. QED
      BY <2>1, TwoHalves
  <1>1. CASE Boot \/ Reconfigure \/ Encode \/ PowerCut
    <2>1. SenderInv'
      BY <1>1, SenderStep
    <2>2. UNCHANGED receiver /\ sealed \subseteq sealed'
      BY <1>1 DEF Boot, ReadFloor, SaveFloor, Reconfigure, Encode, Count,
                  MaybePersist, Seal, PowerCut
    <2>3. ReceiverInv'
      BY <2>2 DEF ReceiverInv, ReceiverOK, WindowIsHistory, SeededOrEmpty, receiver
    <2>4. QED
      BY <2>1, <2>3
  <1>2. CASE PeerReset
    <2>1. SenderInv'
      BY <1>2 DEF PeerReset, sender, SenderInv, SenderOK, NextBootIsFresh,
                  InvRunning, Running, InvFloor, NoReuse
    <2>2. ReceiverInv'
      BY <1>2 DEF PeerReset, ReceiverInv, ReceiverOK, WindowIsHistory, SeededOrEmpty
    <2>3. QED
      BY <2>1, <2>2
  <1>3. ASSUME NEW ctr \in sealed, Accept(ctr) PROVE SenderInv' /\ ReceiverInv'
    <2>1. SenderInv'
      BY <1>3 DEF Accept, sender, SenderInv, SenderOK, NextBootIsFresh,
                  InvRunning, Running, InvFloor, NoReuse
    <2>2. ReceiverInv'
      BY <1>3, ReceiverStep DEF SenderInv
    <2>3. QED
      BY <2>1, <2>2
  <1>4. CASE UNCHANGED vars
    BY <1>4 DEF vars, sender, receiver, SenderInv, ReceiverInv, SenderOK,
                ReceiverOK, NextBootIsFresh, InvRunning, Running, InvFloor,
                NoReuse, WindowIsHistory, SeededOrEmpty
  <1>5. QED
    BY <1>1, <1>2, <1>3, <1>4 DEF Next, Receive

(* The inductive invariant of Encode, ApplyLinkConfig and ReplayOk holds   *)
(* in every reachable state.                                               *)
THEOREM Inductive == Spec => []IInv
  BY InvInit, InvStep, PTL DEF Spec

(***************************************************************************)
(* Encode never seals two frames under one counter, power cuts included.   *)
(***************************************************************************)
THEOREM NeverReused == Spec => []NoReuse
  <1>1. IInv => NoReuse
    BY DEF IInv
  <1>2. QED
    BY <1>1, Inductive, PTL

(***************************************************************************)
(* The first counter after a power cut passes the peer's window, whatever  *)
(* epoch the sender drew.                                                  *)
(***************************************************************************)
THEOREM HeardAgain == Spec => []RestartIsHeard
  <1>1. IInv => RestartIsHeard
    <2> SUFFICES ASSUME IInv, rx_ctr_init PROVE txctr + Stride + 1 > rx_ctr_max
      BY DEF RestartIsHeard, ReplayOk
    <2>1. rx_ctr_max \in sealed /\ sealed \subseteq Nat
      BY DEF IInv, WindowIsHistory, TypeOK
    <2>2. rx_ctr_max < txctr + Stride /\ txctr \in Nat
      BY <2>1 DEF IInv, NextBootIsFresh, TypeOK
    <2>3. QED
      BY <2>1, <2>2
  <1>2. QED
    BY <1>1, Inductive, PTL

(***************************************************************************)
(* ReplayOk never lets a counter through a second time.                    *)
(***************************************************************************)
THEOREM OnceOnly == Spec => []AcceptedOnce
  <1>1. IInv => AcceptedOnce
    <2> SUFFICES ASSUME IInv, NEW ctr \in accepted PROVE ~ReplayOk(ctr)
      BY DEF AcceptedOnce
    <2>1. /\ rx_ctr_init /\ ctr <= rx_ctr_max
          /\ ctr \in Nat /\ rx_ctr_max \in Nat
      BY DEF IInv, SeededOrEmpty, WindowIsHistory, TypeOK
    <2>2. CASE Bit(ctr) < Width
      <3>1. Bit(ctr) \in Bits /\ rx_ctr_max - Bit(ctr) = ctr
        BY <2>1, <2>2 DEF Bit, Bits
      <3>2. Bit(ctr) \in rx_window
        BY <2>1, <3>1 DEF IInv, WindowIsHistory
      <3>3. QED
        BY <2>1, <3>2 DEF ReplayOk
    <2>3. CASE ~(Bit(ctr) < Width)
      BY <2>1, <2>3 DEF ReplayOk
    <2>4. QED
      BY <2>2, <2>3
  <1>2. QED
    BY <1>1, Inductive, PTL

(***************************************************************************)
(* ReplayOk refuses no counter but those it has seen and those too old.    *)
(***************************************************************************)
THEOREM NoFalseReplay == Spec => []LateIsAccepted
  <1>1. IInv => LateIsAccepted
    <2> SUFFICES ASSUME IInv, NEW ctr \in sealed \ accepted,
                        ctr > rx_ctr_max - Width
                 PROVE  ReplayOk(ctr)
      BY DEF LateIsAccepted
    <2>1. CASE rx_ctr_init /\ ctr <= rx_ctr_max
      <3>1. Bit(ctr) \in Bits /\ rx_ctr_max - Bit(ctr) = ctr
        BY <2>1 DEF Bit, Bits, IInv, TypeOK
      <3>2. Bit(ctr) \notin rx_window
        BY <2>1, <3>1 DEF IInv, WindowIsHistory
      <3>3. QED
        BY <3>1, <3>2 DEF ReplayOk, Bits
    <2>2. CASE ~(rx_ctr_init /\ ctr <= rx_ctr_max)
      BY <2>2 DEF ReplayOk, IInv, TypeOK
    <2>3. QED
      BY <2>1, <2>2
  <1>2. QED
    BY <1>1, Inductive, PTL

(***************************************************************************)
(* ReplayOk's word decides exactly: each counter in the window once.       *)
(***************************************************************************)
THEOREM WindowExact == Spec => []WindowIsExact
  <1>1. AcceptedOnce /\ LateIsAccepted => WindowIsExact
    BY DEF WindowIsExact
  <1>2. QED
    BY <1>1, OnceOnly, NoFalseReplay, PTL
=============================================================================
