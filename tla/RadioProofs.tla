----------------------------- MODULE RadioProofs -----------------------------
(***************************************************************************)
(* The frame ring is correct for every number of slots and every set of    *)
(* frames, and the radio driver that uses it for every set of presets,     *)
(* every time on air, every size of the ring and every storm limit.        *)
(***************************************************************************)
EXTENDS Radio, SequenceTheorems, TLAPS

-----------------------------------------------------------------------------
(***************************************************************************)
(* The ring.                                                               *)
(***************************************************************************)

(* What inc computes: the only fact about % that the proofs use. *)
LEMMA IncIs ==
  ASSUME NEW i \in Index
  PROVE  inc(i) = IF i + 1 = SLOTS THEN 0 ELSE i + 1
<1>1. CASE i + 1 = SLOTS
  BY <1>1, SlotsAssumption DEF Index, inc
<1>2. CASE i + 1 # SLOTS
  BY <1>2, SlotsAssumption DEF Index, inc
<1> QED BY <1>1, <1>2

(* inc never leaves the slot array. *)
LEMMA IncInIndex == \A i \in Index : inc(i) \in Index
BY IncIs, SlotsAssumption DEF Index
-----------------------------------------------------------------------------
(* The indices that hold published frames: tail up to, not with, head. *)
InUse(i) == IF head >= tail THEN tail <= i /\ i < head
                            ELSE tail <= i \/ i < head

(* The slots apart: while a push is under way its slot is not the tail's   *)
(* nor, once published, will it run into it; while a pop is under way      *)
(* there is a frame to take.                                               *)
Apart == /\ push.at # "idle" => inc(head) # tail
         /\ pop.at # "idle" => head # tail

(* The halves: what a copy has done so far, and whole frames in between. *)
Whole == /\ push.at \in {"second", "publish"} => slots[head][1] = push.frame
         /\ push.at = "publish" => slots[head][2] = push.frame
         /\ pop.at \in {"second", "release"} => pop.copy[1] = slots[tail][1]
         /\ pop.at = "release" => pop.copy[2] = slots[tail][2]
         /\ \A i \in Index : InUse(i) => slots[i][1] = slots[i][2]

IInv == TypeOK /\ Apart /\ Whole

USE SlotsAssumption

(* A new ring satisfies the invariant. *)
LEMMA InvInit == Init => IInv
<1> SUFFICES ASSUME Init PROVE IInv
  OBVIOUS
<1>1. TypeOK
  <2>1. head \in Index /\ tail \in Index /\ slots \in [Index -> Frames \X Frames]
    BY DEF Init, Index
  <2>2. push \in [at : {"idle", "first", "second", "publish"},
                  frame : Frames, ok : BOOLEAN]
    BY DEF Init
  <2>3. pop \in [at : {"idle", "first", "second", "release"},
                 copy : Frames \X Frames,
                 out : (Frames \X Frames) \union {NoFrame}]
    BY DEF Init
  <2> QED BY <2>1, <2>2, <2>3 DEF TypeOK
<1>2. Apart /\ Whole
  BY DEF Init, Apart, Whole, InUse, Index
<1> QED BY <1>1, <1>2 DEF IInv

(* No step of Push or Pop breaks the invariant. *)
LEMMA InvStep == IInv /\ [Next]_vars => IInv'
<1> SUFFICES ASSUME IInv, [Next]_vars PROVE IInv'
  OBVIOUS
<1> USE DEF IInv
<1>1. CASE PushBegin
  <2>1. TypeOK'
    BY <1>1 DEF PushBegin, TypeOK
  <2>2. Apart'
    BY <1>1 DEF PushBegin, TypeOK, Apart, Full, inc
  <2>3. Whole'
    BY <1>1 DEF PushBegin, TypeOK, Whole, InUse
  <2> QED BY <2>1, <2>2, <2>3
<1>2. CASE PushFirst
  <2>1. TypeOK'
    BY <1>2 DEF PushFirst, TypeOK
  <2>2. Apart'
    BY <1>2 DEF PushFirst, Apart, inc, TypeOK
  <2>3. Whole'
    BY <1>2 DEF PushFirst, TypeOK, Whole, InUse, Apart, Index
  <2> QED BY <2>1, <2>2, <2>3
<1>3. CASE PushSecond
  <2>1. TypeOK'
    BY <1>3 DEF PushSecond, TypeOK
  <2>2. Apart'
    BY <1>3 DEF PushSecond, Apart, inc, TypeOK
  <2>3. Whole'
    BY <1>3 DEF PushSecond, TypeOK, Whole, InUse, Apart, Index
  <2> QED BY <2>1, <2>2, <2>3
<1>4. CASE PushPublish
  <2>1. TypeOK'
    BY <1>4, IncInIndex DEF PushPublish, TypeOK
  <2>2. Apart'
    BY <1>4 DEF PushPublish, Apart, TypeOK
  <2>3. Whole'
    BY <1>4, IncIs DEF PushPublish, TypeOK, Whole, InUse, Apart, Index
  <2> QED BY <2>1, <2>2, <2>3
<1>5. CASE PopBegin
  BY <1>5 DEF PopBegin, TypeOK, Apart, Whole, InUse
<1>6. CASE PopFirst
  <2>1. TypeOK'
    BY <1>6 DEF PopFirst, TypeOK
  <2>2. Apart' /\ Whole'
    BY <1>6 DEF PopFirst, TypeOK, Apart, Whole, InUse
  <2> QED BY <2>1, <2>2
<1>7. CASE PopSecond
  <2>1. TypeOK'
    BY <1>7 DEF PopSecond, TypeOK
  <2>2. Apart' /\ Whole'
    BY <1>7 DEF PopSecond, TypeOK, Apart, Whole, InUse
  <2> QED BY <2>1, <2>2
<1>8. CASE PopRelease
  <2>1. TypeOK'
    BY <1>8, IncInIndex DEF PopRelease, TypeOK
  <2>2. Apart'
    BY <1>8, IncIs DEF PopRelease, TypeOK, Apart, Index
  <2>3. Whole'
    BY <1>8, IncIs DEF PopRelease, TypeOK, Whole, InUse, Apart, Index
  <2> QED BY <2>1, <2>2, <2>3
<1>9. CASE UNCHANGED vars
  BY <1>9 DEF vars, TypeOK, Apart, Whole, InUse, inc
<1> QED BY <1>1, <1>2, <1>3, <1>4, <1>5, <1>6, <1>7, <1>8, <1>9 DEF Next

(* The inductive invariant holds in every reachable state of the ring. *)
LEMMA Inductive == Spec => []IInv
BY InvInit, InvStep, PTL DEF Spec

(* The two cores never work on the same slot, in either direction. *)
THEOREM SlotsApart == Spec => []NoSharedSlot
<1>1. IInv => NoSharedSlot
  BY DEF IInv, Apart, NoSharedSlot
<1> QED BY <1>1, Inductive, PTL
-----------------------------------------------------------------------------
Items == {<<f, f>> : f \in Frames}

(* At most SLOTS - 1 slots are in use: one stays free. *)
LEMMA UsedIs == ASSUME TypeOK PROVE Used \in 0 .. SLOTS - 1
BY DEF TypeOK, Used, Index

(* The k-th slot in use is an index of the array. *)
LEMMA SlotIs ==
  ASSUME TypeOK, NEW i \in 1 .. Used
  PROVE  Slot(i) \in Index /\ InUse(Slot(i)) /\ Slot(i) # head
BY DEF TypeOK, Used, Slot, InUse, Index

(* The queue the slots from tail_ to head_ - 1 stand for: its length and   *)
(* items.                                                                  *)
LEMMA QueueIs ==
  ASSUME IInv
  PROVE  /\ Queue \in Seq(Items) /\ Len(Queue) = Used
         /\ (head = tail) <=> (Queue = <<>>)
<1>1. ASSUME NEW i \in 1 .. Used PROVE slots[Slot(i)] \in Items
  <2>1. slots[Slot(i)] \in Frames \X Frames
    BY <1>1, SlotIs DEF IInv, TypeOK
  <2>2. slots[Slot(i)][1] = slots[Slot(i)][2]
    BY <1>1, SlotIs DEF IInv, Whole
  <2> QED BY <2>1, <2>2 DEF Items
<1>2. Used \in Nat
  BY UsedIs DEF IInv
<1>3. Queue \in Seq(Items) /\ Len(Queue) = Used
  BY <1>1, <1>2 DEF Queue
<1>4. (head = tail) <=> (Used = 0)
  BY DEF IInv, TypeOK, Used, Index
<1> QED BY <1>3, <1>4

(* A step that moves neither index and writes at most the free slot leaves *)
(* the queue as it is.                                                     *)
LEMMA QueueStays ==
  ASSUME IInv, UNCHANGED <<head, tail>>,
         \A i \in Index : i # head => slots'[i] = slots[i]
  PROVE  Queue' = Queue
<1>1. Used' = Used
  BY DEF Used
<1>2. \A i \in 1 .. Used : Slot(i)' = Slot(i) /\ Slot(i) \in Index /\ Slot(i) # head
  BY SlotIs DEF IInv, Slot
<1> QED BY <1>1, <1>2 DEF Queue

(* Moving tail_ by one drops the head of the queue. *)
LEMMA TailIs ==
  ASSUME NEW S, NEW q \in Seq(S), q # <<>>
  PROVE  Tail(q) = [i \in 1 .. Len(q) - 1 |-> q[i + 1]]
<1>1. Tail(q) \in Seq(S) /\ Len(Tail(q)) = Len(q) - 1
  BY HeadTailProperties
<1>2. \A i \in 1 .. Len(q) - 1 : Tail(q)[i] = q[i + 1]
  BY <1>1, HeadTailProperties
<1>3. Tail(q) \in [1 .. Len(Tail(q)) -> S]
  BY <1>1, LenProperties, Zenon
<1> QED BY <1>1, <1>2, <1>3

(* A new ring is an empty queue. *)
LEMMA FifoInit == Init => Fifo!Init
<1> SUFFICES ASSUME Init PROVE Fifo!Init
  OBVIOUS
<1>1. Queue = <<>>
  BY InvInit, QueueIs DEF Init
<1> QED BY <1>1 DEF Init, Fifo!Init

(* Every step of the ring is a step of the bounded queue or a stutter. *)
LEMMA FifoStep == IInv /\ IInv' /\ [Next]_vars => [Fifo!Next]_(Fifo!fifoVars)
<1> SUFFICES ASSUME IInv, IInv', [Next]_vars
             PROVE  Fifo!Next \/ UNCHANGED Fifo!fifoVars
  BY DEF Fifo!fifoVars
<1>0. TypeOK
  BY DEF IInv
<1> DEFINE Same == Queue' = Queue /\ push'.ok = push.ok /\ pop'.out = pop.out
<1>a. Same => UNCHANGED Fifo!fifoVars
  BY DEF Fifo!fifoVars
<1>1. CASE PushBegin
  <2>1. Queue' = Queue
    BY <1>1, QueueStays DEF PushBegin
  <2>2. CASE Full(head)
    <3>1. push'.ok = FALSE /\ pop'.out = pop.out
      BY <1>1, <2>2, <1>0 DEF PushBegin, TypeOK
    <3>2. Len(Queue) = SLOTS - 1
      <4>1. tail = IF head + 1 = SLOTS THEN 0 ELSE head + 1
        BY <2>2, <1>0, IncIs DEF Full, TypeOK
      <4>2. Used = SLOTS - 1
        BY <4>1, <1>0 DEF TypeOK, Used, Index
      <4> QED BY <4>2, QueueIs
    <3> QED BY <2>1, <3>1, <3>2 DEF Fifo!Next, Fifo!Refuse
  <2>3. CASE ~Full(head)
    BY <1>a, <1>1, <2>1, <2>3, <1>0 DEF PushBegin, TypeOK
  <2> QED BY <2>2, <2>3
<1>2. CASE PushFirst
  <2>1. Queue' = Queue
    BY <1>2, <1>0, QueueStays DEF PushFirst, TypeOK
  <2> QED BY <1>a, <2>1, <1>2, <1>0 DEF PushFirst, TypeOK
<1>3. CASE PushSecond
  <2>1. Queue' = Queue
    BY <1>3, <1>0, QueueStays DEF PushSecond, TypeOK
  <2> QED BY <1>a, <2>1, <1>3, <1>0 DEF PushSecond, TypeOK
<1>4. CASE PushPublish
  <2>1. /\ head' = IF head + 1 = SLOTS THEN 0 ELSE head + 1
        /\ head' # tail
    BY <1>4, <1>0, IncIs DEF PushPublish, TypeOK, IInv, Apart
  <2>2. Used' = Used + 1 /\ Used < SLOTS - 1 /\ Slot(Used + 1) = head
    <3>1. head \in 0 .. SLOTS - 1 /\ tail \in 0 .. SLOTS - 1 /\ tail' = tail
      BY <1>4, <1>0 DEF PushPublish, TypeOK, Index
    <3>2. Used' = Used + 1 /\ Used < SLOTS - 1
      BY <2>1, <3>1 DEF Used
    <3>3. Slot(Used + 1) = head
      BY <3>1 DEF Used, Slot
    <3> QED BY <3>2, <3>3
  <2>3. \A i \in 1 .. Used + 1 : Slot(i)' = Slot(i)
    BY <1>4 DEF PushPublish, Slot
  <2>4. slots[head] \in Items
    BY <1>4, <1>0 DEF PushPublish, TypeOK, IInv, Whole, Items
  <2>5. Queue' = Append(Queue, slots[head])
    <3>1. Used \in Nat
      BY <1>0, UsedIs
    <3>2. Queue' = [i \in 1 .. Used + 1 |-> slots[Slot(i)]]
      BY <2>2, <2>3, <1>4 DEF PushPublish, Queue
    <3>3. Append(Queue, slots[head])
            = [i \in 1 .. Used + 1 |-> IF i <= Used THEN slots[Slot(i)]
                                                  ELSE slots[head]]
      BY <3>1, QueueIs DEF Queue
    <3>4. \A i \in 1 .. Used + 1 : i <= Used \/ Slot(i) = head
      BY <3>1, <2>2
    <3> QED BY <3>2, <3>3, <3>4
  <2>6. Len(Queue) < SLOTS - 1
    BY <2>2, QueueIs
  <2>7. push'.ok = TRUE /\ pop'.out = pop.out
    BY <1>4, <1>0 DEF PushPublish, TypeOK
  <2> QED BY <2>4, <2>5, <2>6, <2>7 DEF Fifo!Next, Fifo!Accept, Items
<1>5. CASE PopBegin
  <2>1. Queue' = Queue /\ push'.ok = push.ok
    BY <1>5, QueueStays DEF PopBegin
  <2>2. CASE head = tail
    <3>1. pop'.out = NoFrame /\ Queue = <<>>
      BY <1>5, <2>2, <1>0, QueueIs DEF PopBegin, TypeOK
    <3> QED BY <2>1, <3>1 DEF Fifo!Next, Fifo!Miss
  <2>3. CASE head # tail
    BY <1>a, <1>5, <2>1, <2>3, <1>0 DEF PopBegin, TypeOK
  <2> QED BY <2>2, <2>3
<1>6. CASE PopFirst
  <2>1. Queue' = Queue
    BY <1>6, QueueStays DEF PopFirst
  <2> QED BY <1>a, <2>1, <1>6, <1>0 DEF PopFirst, TypeOK
<1>7. CASE PopSecond
  <2>1. Queue' = Queue
    BY <1>7, QueueStays DEF PopSecond
  <2> QED BY <1>a, <2>1, <1>7, <1>0 DEF PopSecond, TypeOK
<1>8. CASE PopRelease
  <2>1. /\ head # tail
        /\ tail' = IF tail + 1 = SLOTS THEN 0 ELSE tail + 1
    BY <1>8, <1>0, IncIs DEF PopRelease, TypeOK, IInv, Apart
  <2>a. head \in 0 .. SLOTS - 1 /\ tail \in 0 .. SLOTS - 1 /\ head' = head
    BY <1>8, <1>0 DEF PopRelease, TypeOK, Index
  <2>2. Used' = Used - 1 /\ Used > 0 /\ Slot(1) = tail
    BY <2>1, <2>a DEF Used, Slot
  <2>3. \A i \in 1 .. Used - 1 : Slot(i)' = Slot(i + 1)
    BY <2>1, <2>2, <2>a DEF Used, Slot
  <2>4. Queue' = Tail(Queue) /\ Head(Queue) = slots[tail] /\ Queue # <<>>
    <3>1. Used \in Nat
      BY <1>0, UsedIs
    <3>2. Queue' = [i \in 1 .. Used - 1 |-> slots[Slot(i + 1)]]
      BY <2>2, <2>3, <1>8 DEF PopRelease, Queue
    <3>3. Tail(Queue) = [i \in 1 .. Used - 1 |-> Queue[i + 1]]
      <4>1. Queue \in Seq(Items) /\ Len(Queue) = Used
        BY QueueIs
      <4> QED BY <4>1, TailIs, QueueIs, <2>1
    <3>4. \A i \in 1 .. Used - 1 : Queue[i + 1] = slots[Slot(i + 1)]
      BY <3>1 DEF Queue
    <3>5. Head(Queue) = slots[tail] /\ Queue # <<>>
      BY <3>1, <2>2, QueueIs DEF Queue
    <3> QED BY <3>2, <3>3, <3>4, <3>5
  <2>5. slots[tail] = pop.copy
    BY <1>8, <1>0 DEF PopRelease, TypeOK, IInv, Whole
  <2>6. pop'.out = pop.copy /\ push'.ok = push.ok
    BY <1>8, <1>0 DEF PopRelease, TypeOK
  <2> QED BY <2>4, <2>5, <2>6 DEF Fifo!Next, Fifo!Take
<1>9. CASE UNCHANGED vars
  BY <1>9 DEF vars, Fifo!fifoVars, Queue, Used, Slot
<1> QED BY <1>1, <1>2, <1>3, <1>4, <1>5, <1>6, <1>7, <1>8, <1>9 DEF Next

(* The lock-free ring is a bounded first-in first-out queue of whole       *)
(* frames, whatever its size and however the two cores interleave.         *)
THEOREM RingImplementsFifo == Spec => ImplementsFifo
BY FifoInit, FifoStep, Inductive, PTL DEF Spec, ImplementsFifo, Fifo!Spec

-----------------------------------------------------------------------------
(***************************************************************************)
(* The driver.                                                             *)
(***************************************************************************)

(* Timing, whatever the time on air: the window is at least 2 and fits the *)
(* link, and the retransmission and listening times outlast what they wait *)
(* for.                                                                    *)
LEMMA TimingIs ==
  ASSUME NEW t \in Nat
  PROVE  LET m == Timing(t)
         IN /\ m.window \in 2 .. MAXWIN
            /\ m.retransmit > (m.window + 1) * t + m.interframe
            /\ m.listen > t + m.interframe
<1> DEFINE toa == AtLeast(t, 5)
           w == Window(toa)
           f == (w + 2) * toa
<1>1. toa \in Nat /\ toa >= t /\ toa >= 5
  BY DEF AtLeast
<1> HIDE DEF toa
<1>2. w \in 2 .. MAXWIN
  <2>1. 1500 \div toa \in Int
    BY <1>1
  <2> QED BY <2>1, LimitsAssumption DEF Window, AtLeast, AtMost
<1> HIDE DEF w
<1>3. w \in Nat /\ w + 2 \in Nat /\ w + 1 \in Nat
  BY <1>2, LimitsAssumption
<1>4. f \in Nat /\ f = (w + 1) * toa + toa /\ (w + 1) * toa >= (w + 1) * t /\ (w + 1) * t \in Nat
  <2>1. (w + 1) * (toa - t) >= 0
    BY <1>1, <1>3
  <2>2. (w + 1) * (toa - t) = (w + 1) * toa - (w + 1) * t
    BY <1>1, <1>3
  <2>3. (w + 2) * toa = (w + 1) * toa + toa
    BY <1>1, <1>3
  <2> QED BY <1>1, <1>3, <2>1, <2>2, <2>3
<1>5. Timing(t) = [window |-> w, interframe |-> toa + 60, turn_rx |-> 6 * toa + 200,
                   listen |-> AtLeast(toa + (toa + 60) + 500, 3000),
                   retransmit |-> (f * 140) \div 100 + 400]
  BY DEF Timing, toa, w
<1> DEFINE g == (w + 1) * t
           h == (w + 1) * toa
<1>6. f \in Nat /\ f = h + toa /\ h >= g /\ g \in Nat
  BY <1>4
<1> HIDE DEF f, g, h
<1>7. (f * 140) \div 100 >= f /\ (f * 140) \div 100 \in Int
  BY <1>6
<1>8. (f * 140) \div 100 + 400 > g + (toa + 60)
  <2>1. h \in Int
    BY <1>1, <1>6, <1>3 DEF h
  <2> QED BY <1>1, <1>6, <1>7, <2>1
<1>9. AtLeast(toa + (toa + 60) + 500, 3000) > t + (toa + 60)
  BY <1>1 DEF AtLeast
<1> QED BY <1>2, <1>5, <1>8, <1>9 DEF g

(* So the link keeps its time on any preset. *)
LEMMA OnPresetFits ==
  ASSUME NEW p \in Presets, chip.preset = p, phy = OnPreset(p)
  PROVE  OnePhy
<1>1. Toa[p] \in Nat
  BY ToaAssumption
<1>2. TimingFits
  BY <1>1, TimingIs DEF TimingFits, OnPreset
<1>3. CurrentModeIndex = p
  BY PresetsAssumption DEF CurrentModeIndex, OnPreset, Presets
<1> QED BY <1>2, <1>3 DEF OnePhy, OnPreset
-----------------------------------------------------------------------------
(* The driver moves the ring only by Push, in the radio task, and Pop, in  *)
(* Rx: its ring is the frame ring.                                         *)
LEMMA StepOfRing == [RadioNext]_allVars => [Next]_vars
<1> SUFFICES ASSUME [RadioNext]_allVars PROVE [Next]_vars
  OBVIOUS
<1>1. CASE Task
  BY <1>1 DEF Task, TaskWake, TaskLock, TaskRead, TaskPush, TaskRearm, TaskUnlock,
              TaskHalt, TaskResume, Quiet, Next
<1>2. CASE Calls
  BY <1>2 DEF Calls, StartTask, MaybeReinitRadio, TxStart, TxRefused, TxEnd,
              RxStart, RxPop, RxFrame, RxTimeout, Quiet, Next
<1>3. CASE Host
  BY <1>3 DEF Host, Switch, Command, PairBegin, PairEnd, Quiet
<1>4. CASE TxDone \/ FrameArrives \/ ChipHangs \/ StuckTime
  BY <1>4 DEF TxDone, FrameArrives, ChipHangs, StuckTime, Quiet
<1>5. CASE UNCHANGED allVars
  BY <1>5 DEF allVars
<1> QED BY <1>1, <1>2, <1>3, <1>4, <1>5 DEF RadioNext

(* With the task, the interrupt and the commands around it, the ring is    *)
(* still used by one producer and one consumer.                            *)
THEOREM DriverUsesRing == RadioSpec => Spec
<1>1. RadioInit => Init
  BY DEF RadioInit
<1> QED BY <1>1, StepOfRing, PTL DEF RadioSpec, Spec

(* So the two cores never work on the same slot *)
THEOREM RadioSlotsApart == RadioSpec => []NoSharedSlot
BY DriverUsesRing, SlotsApart, PTL

(* and the loop gets whole frames, once each, in the order they came.      *)
THEOREM RadioImplementsFifo == RadioSpec => ImplementsFifo
BY DriverUsesRing, RingImplementsFifo, PTL
-----------------------------------------------------------------------------
(* Setup, before the task exists. *)
LEMMA RadioInvInit == RadioInit => RadioInv
<1> SUFFICES ASSUME RadioInit PROVE RadioInv
  OBVIOUS
<1>1. TypeOK
  BY InvInit DEF RadioInit, IInv
<1>2. PICK p \in LoraModes :
        /\ chip = [mode |-> "standby", preset |-> p, hung |-> FALSE]
        /\ phy = [cfg |-> p, fsk |-> FALSE, timing |-> Timing(Toa[p]),
                  link |-> Timing(Toa[p])]
  BY DEF RadioInit
<1>3. /\ irq = FALSE /\ done = FALSE /\ note = FALSE /\ armed = FALSE
      /\ lock = [owner |-> "none", depth |-> 0]
      /\ task = [at |-> "none", fails |-> 0, failed |-> FALSE]
      /\ loop = [at |-> "setup", inner |-> "off"]
      /\ silent = FALSE /\ cut = FALSE
  BY DEF RadioInit
<1>4. RadioTypeOK
  <2>1. STORM - 1 \in Nat /\ 0 \in 0 .. STORM - 1
    BY LimitsAssumption
  <2>2. InTx = 0
    BY <1>3 DEF InTx
  <2>3. /\ chip \in [mode : {"standby", "rx", "tx"}, preset : Presets, hung : BOOLEAN]
        /\ phy.cfg \in Presets /\ phy.fsk \in BOOLEAN
    BY <1>2 DEF Presets
  <2>4. task \in [at : {"none", "wait", "lock", "read", "push", "rearm", "unlock",
                       "halt", "nap"}, fails : 0 .. STORM - 1, failed : BOOLEAN]
    BY <1>3, <2>1
  <2>5. /\ lock \in [owner : {"none", "loop", "task"}, depth : 0 .. 2]
        /\ loop \in [at : {"setup", "top", "turn", "rx", "tx"},
                     inner : {"off", "run", "rx", "tx"}]
    BY <1>3
  <2> QED BY <1>1, <1>3, <2>2, <2>3, <2>4, <2>5 DEF RadioTypeOK, MutexReturned
<1>5. Held
  BY <1>3 DEF Held, InTx, InPass
<1>6. Placed
  BY <1>2, <1>3 DEF Placed, In, RadioInit, Init
<1>7. phy = OnPreset(chip.preset)
  BY <1>2, PresetsAssumption DEF OnPreset
<1>8. ArmedIsTrue /\ ToldInPass
  BY <1>2, <1>3 DEF ArmedIsTrue, RxListens, In, ToldInPass
<1> QED BY <1>4, <1>5, <1>6, <1>7, <1>8 DEF RadioInv

(* The radio task. *)
LEMMA TaskKeeps ==
  ASSUME RadioInv, Task, TypeOK'
  PROVE  RadioInv'
<1> USE DEF RadioInv
<1>a. /\ chip \in [mode : {"standby", "rx", "tx"}, preset : Presets, hung : BOOLEAN]
      /\ task \in [at : {"none", "wait", "lock", "read", "push", "rearm", "unlock",
                         "halt", "nap"}, fails : 0 .. STORM - 1, failed : BOOLEAN]
      /\ lock \in [owner : {"none", "loop", "task"}, depth : 0 .. 2]
      /\ TypeOK /\ STORM \in Nat \ {0} /\ irq \in BOOLEAN /\ note \in BOOLEAN
  BY LimitsAssumption DEF RadioTypeOK
<1>b. ASSUME UNCHANGED <<done, armed, lock, loop, phy, silent>>, irq' \in BOOLEAN,
             note' \in BOOLEAN, cut' \in BOOLEAN,
             chip' \in [mode : {"standby", "rx", "tx"}, preset : Presets, hung : BOOLEAN],
             task' \in [at : {"none", "wait", "lock", "read", "push", "rearm", "unlock",
                             "halt", "nap"}, fails : 0 .. STORM - 1, failed : BOOLEAN]
      PROVE  RadioTypeOK'
  BY <1>b DEF RadioTypeOK, MutexReturned, InTx
<1>1. CASE TaskWake
  <2>1. RadioTypeOK'
    <3>1. task' \in [at : {"none", "wait", "lock", "read", "push", "rearm", "unlock",
                          "halt", "nap"}, fails : 0 .. STORM - 1, failed : BOOLEAN]
      BY <1>1, <1>a DEF TaskWake
    <3> QED BY <1>1, <1>b, <3>1, <1>a DEF TaskWake, RadioTypeOK
  <2>2. Held' /\ Placed' /\ phy' = OnPreset(chip.preset)'
    BY <1>1, <1>a DEF Held, Placed, InTx, InPass, In, TaskWake, Quiet, vars, OnPreset
  <2>3. ArmedIsTrue' /\ ToldInPass'
    BY <1>1, <1>a DEF ArmedIsTrue, RxListens, In, ToldInPass, TaskWake
  <2> QED BY <2>1, <2>2, <2>3
<1>2. CASE TaskLock
  <2>1. RadioTypeOK'
    BY <1>2, <1>a DEF RadioTypeOK, MutexReturned, InTx, TaskLock, TaskTo, Quiet, air, Held, Free
  <2>2. Held' /\ Placed' /\ phy' = OnPreset(chip.preset)'
    BY <1>2, <1>a DEF Held, Placed, InTx, InPass, In, TaskLock, TaskTo, Quiet, vars, air, Free, OnPreset
  <2>3. ArmedIsTrue' /\ ToldInPass'
    BY <1>2, <1>a DEF ArmedIsTrue, RxListens, In, ToldInPass, TaskLock, TaskTo, air
  <2> QED BY <2>1, <2>2, <2>3
<1>3. CASE TaskRead
  <2>1. RadioTypeOK'
    <3>1. task' \in [at : {"none", "wait", "lock", "read", "push", "rearm", "unlock",
                          "halt", "nap"}, fails : 0 .. STORM - 1, failed : BOOLEAN]
      <4>1. 0 \in 0 .. STORM - 1
        BY <1>a
      <4>2. \/ task' = [task EXCEPT !.at = "push", !.fails = 0]
            \/ task' = [task EXCEPT !.at = "rearm", !.failed = TRUE]
        BY <1>3 DEF TaskRead
      <4> QED BY <4>1, <4>2, <1>a
    <3>2. irq' \in BOOLEAN
      <4>1. irq' = FALSE \/ irq' \in {FALSE, irq}
        BY <1>3 DEF TaskRead
      <4>2. {FALSE, irq} \subseteq BOOLEAN
        BY <1>a
      <4> QED BY ONLY <4>1, <4>2
    <3> QED BY <1>3, <1>b, <3>1, <3>2, <1>a DEF TaskRead, RadioTypeOK
  <2>2. Held' /\ Placed' /\ phy' = OnPreset(chip.preset)'
    BY <1>3, <1>a DEF Held, Placed, InTx, InPass, In, TaskRead, Quiet, vars, OnPreset
  <2>3. ArmedIsTrue' /\ ToldInPass'
    BY <1>3, <1>a DEF ArmedIsTrue, RxListens, In, ToldInPass, TaskRead
  <2> QED BY <2>1, <2>2, <2>3
<1>4. CASE TaskPush
  <2>0. /\ task' = [task EXCEPT !.at = IF push'.at = "idle" THEN "rearm" ELSE "push"]
        /\ task.at = "push" /\ pop' = pop
        /\ UNCHANGED <<chip, irq, done, note, armed, lock, loop, phy, silent, cut>>
    BY <1>4 DEF TaskPush, TaskTo, PushBegin, PushFirst, PushSecond, PushPublish, air
  <2>1. RadioTypeOK'
    BY <2>0, <1>a DEF RadioTypeOK, MutexReturned, InTx
  <2>2. Held' /\ Placed' /\ phy' = OnPreset(chip.preset)'
    BY <2>0, <1>a DEF Held, Placed, InTx, InPass, In, OnPreset
  <2>3. ArmedIsTrue' /\ ToldInPass'
    BY <2>0, <1>a DEF ArmedIsTrue, RxListens, In, ToldInPass
  <2> QED BY <2>1, <2>2, <2>3
<1>5. CASE TaskRearm
  <2>1. RadioTypeOK'
    <3>1. /\ task' \in [at : {"none", "wait", "lock", "read", "push", "rearm", "unlock",
                             "halt", "nap"}, fails : 0 .. STORM - 1, failed : BOOLEAN]
          /\ chip' \in [mode : {"standby", "rx", "tx"}, preset : Presets, hung : BOOLEAN]
          /\ irq' \in BOOLEAN /\ cut' \in BOOLEAN
      BY <1>5, <1>a DEF TaskRearm, TaskTo, Receive, RadioTypeOK
    <3> QED BY <1>5, <1>b, <3>1, <1>a DEF TaskRearm
  <2>2. Held' /\ Placed' /\ phy' = OnPreset(chip.preset)'
    BY <1>5, <1>a DEF Held, Placed, InTx, InPass, In, TaskRearm, TaskTo, Receive, Quiet, vars, OnPreset
  <2>3. ArmedIsTrue' /\ ToldInPass'
    BY <1>5, <1>a DEF ArmedIsTrue, RxListens, In, ToldInPass, TaskRearm, TaskTo, Receive
  <2> QED BY <2>1, <2>2, <2>3
<1>6. CASE TaskUnlock
  <2>1. RadioTypeOK'
    <3>1. task' \in [at : {"none", "wait", "lock", "read", "push", "rearm", "unlock",
                          "halt", "nap"}, fails : 0 .. STORM - 1, failed : BOOLEAN]
      <4>1. task.fails \in 0 .. STORM - 1 /\ 0 \in 0 .. STORM - 1
            /\ (~(task.fails + 1 >= STORM) => task.fails + 1 \in 0 .. STORM - 1)
        BY <1>a
      <4> QED BY <1>6, <1>a, <4>1 DEF TaskUnlock
    <3>2. InTx' = 0 /\ lock' = [owner |-> "none", depth |-> 0]
      BY <1>6 DEF TaskUnlock, Held, InPass, InTx, RadioTypeOK
    <3>3. lock' \in [owner : {"none", "loop", "task"}, depth : 0 .. 2] /\ MutexReturned'
      BY <3>2 DEF MutexReturned
    <3>4. UNCHANGED <<chip, irq, done, note, armed, loop, phy, silent, cut>>
      BY <1>6 DEF TaskUnlock, air
    <3> QED BY <3>1, <3>3, <3>4 DEF RadioTypeOK
  <2>2. Held' /\ Placed' /\ phy' = OnPreset(chip.preset)'
    BY <1>6, <1>a DEF Held, Placed, InTx, InPass, In, TaskUnlock, Quiet, vars, air, OnPreset
  <2>3. ArmedIsTrue' /\ ToldInPass'
    BY <1>6, <1>a DEF ArmedIsTrue, RxListens, In, ToldInPass, TaskUnlock, air
  <2> QED BY <2>1, <2>2, <2>3
<1>7. CASE TaskHalt
  <2>1. RadioTypeOK'
    BY <1>7, <1>a DEF RadioTypeOK, MutexReturned, InTx, TaskHalt, TaskTo, Standby, Quiet
  <2>2. Held' /\ Placed' /\ phy' = OnPreset(chip.preset)'
    BY <1>7, <1>a DEF Held, Placed, InTx, InPass, In, TaskHalt, TaskTo, Standby, Quiet, vars, OnPreset
  <2>3. ArmedIsTrue' /\ ToldInPass'
    BY <1>7, <1>a DEF ArmedIsTrue, RxListens, In, ToldInPass, TaskHalt, TaskTo, Standby
  <2> QED BY <2>1, <2>2, <2>3
<1>8. CASE TaskResume
  <2>1. RadioTypeOK'
    <3>1. /\ task' \in [at : {"none", "wait", "lock", "read", "push", "rearm", "unlock",
                             "halt", "nap"}, fails : 0 .. STORM - 1, failed : BOOLEAN]
          /\ chip' \in [mode : {"standby", "rx", "tx"}, preset : Presets, hung : BOOLEAN]
          /\ irq' \in BOOLEAN /\ cut' \in BOOLEAN
      BY <1>8, <1>a DEF TaskResume, TaskTo, Receive, RadioTypeOK
    <3> QED BY <1>8, <1>b, <3>1, <1>a DEF TaskResume
  <2>2. Held' /\ Placed' /\ phy' = OnPreset(chip.preset)'
    BY <1>8, <1>a DEF Held, Placed, InTx, InPass, In, TaskResume, TaskTo, Receive, Quiet, vars, Free, OnPreset
  <2>3. ArmedIsTrue' /\ ToldInPass'
    BY <1>8, <1>a DEF ArmedIsTrue, RxListens, In, ToldInPass, TaskResume, TaskTo, Receive, Placed
  <2> QED BY <2>1, <2>2, <2>3
<1> QED BY <1>1, <1>2, <1>3, <1>4, <1>5, <1>6, <1>7, <1>8 DEF Task

(* The loop's own calls. *)
LEMMA CallsKeep ==
  ASSUME RadioInv, Calls, TypeOK'
  PROVE  RadioInv'
<1> USE DEF RadioInv
<1>a. /\ chip \in [mode : {"standby", "rx", "tx"}, preset : Presets, hung : BOOLEAN]
      /\ task \in [at : {"none", "wait", "lock", "read", "push", "rearm", "unlock",
                         "halt", "nap"}, fails : 0 .. STORM - 1, failed : BOOLEAN]
      /\ lock \in [owner : {"none", "loop", "task"}, depth : 0 .. 2]
      /\ loop \in [at : {"setup", "top", "turn", "rx", "tx"},
                   inner : {"off", "run", "rx", "tx"}]
      /\ TypeOK /\ irq \in BOOLEAN /\ note \in BOOLEAN /\ armed \in BOOLEAN
      /\ silent \in BOOLEAN /\ cut \in BOOLEAN /\ done \in BOOLEAN
  BY DEF RadioTypeOK
<1>b. chip.preset \in Presets /\ phy = OnPreset(chip.preset)
  BY <1>a
<1>c. ASSUME UNCHANGED <<task, phy>>, MutexReturned', armed' \in BOOLEAN,
             irq' \in BOOLEAN, note' \in BOOLEAN, done' \in BOOLEAN, cut' \in BOOLEAN,
             silent' \in BOOLEAN,
             chip' \in [mode : {"standby", "rx", "tx"}, preset : Presets, hung : BOOLEAN],
             lock' \in [owner : {"none", "loop", "task"}, depth : 0 .. 2],
             loop' \in [at : {"setup", "top", "turn", "rx", "tx"},
                       inner : {"off", "run", "rx", "tx"}]
      PROVE  RadioTypeOK'
  BY <1>c DEF RadioTypeOK
<1>1. CASE StartTask
  <2>1. RadioTypeOK'
    BY <1>1, <1>a DEF RadioTypeOK, MutexReturned, InTx, StartTask, Receive, Quiet
  <2>2. Held' /\ Placed' /\ phy' = OnPreset(chip.preset)'
    BY <1>1, <1>a DEF Held, Placed, InTx, InPass, In, StartTask, Receive, Quiet, vars, OnPreset
  <2>3. ArmedIsTrue' /\ ToldInPass'
    BY <1>1, <1>a DEF ArmedIsTrue, RxListens, In, ToldInPass, StartTask, Receive, Placed
  <2> QED BY <2>1, <2>2, <2>3
<1>2. CASE MaybeReinitRadio
  <2>0. /\ loop.at = "top" /\ loop.inner = "off" /\ loop' = [loop EXCEPT !.at = "turn"]
        /\ UNCHANGED <<vars, done, note, lock, task>>
    BY <1>2 DEF MaybeReinitRadio, Quiet
  <2>1. CASE ~silent
    <3>0. UNCHANGED <<chip, irq, armed, silent, cut, phy>>
      BY <1>2, <2>1 DEF MaybeReinitRadio
    <3>1. RadioTypeOK'
      BY <2>0, <3>0, <1>a DEF RadioTypeOK, MutexReturned, InTx
    <3>2. Held' /\ Placed' /\ phy' = OnPreset(chip.preset)'
      BY <2>0, <3>0, <1>a DEF Held, Placed, InTx, InPass, In, vars, OnPreset
    <3>3. ArmedIsTrue' /\ ToldInPass'
      BY <2>0, <3>0, <1>a DEF ArmedIsTrue, RxListens, In, ToldInPass
    <3> QED BY <3>1, <3>2, <3>3
  <2>2. CASE silent
    <3>0. /\ chip' = [mode |-> IF phy.fsk THEN "rx" ELSE "standby",
                      preset |-> chip.preset, hung |-> FALSE]
          /\ armed' = phy.fsk /\ armed' \in BOOLEAN
          /\ irq' = FALSE /\ silent' = FALSE /\ cut' = FALSE /\ LoopMayLock
          /\ phy' = phy
      <4>1. /\ phy.fsk \in BOOLEAN /\ (phy.fsk => chip.preset = Gfsk) /\ phy.cfg = chip.preset
        <5>1. phy.cfg = chip.preset /\ phy.fsk = (chip.preset = Gfsk)
          BY <1>b DEF OnPreset
        <5>2. phy.fsk \in BOOLEAN
          BY DEF RadioTypeOK
        <5> QED BY <5>1, <5>2
      <4>2. Reinit /\ irq' = FALSE /\ silent' = FALSE /\ cut' = FALSE /\ LoopMayLock
            /\ phy' = [phy EXCEPT !.timing = Timing(Toa[chip'.preset])]
        BY <1>2, <2>2 DEF MaybeReinitRadio
      <4>3. /\ chip' = [mode |-> IF phy.fsk THEN "rx" ELSE "standby",
                        preset |-> chip.preset, hung |-> FALSE]
            /\ armed' = phy.fsk
        BY <4>1, <4>2 DEF Reinit
      <4>4. phy' = phy
        BY <4>2, <4>3, <1>b DEF OnPreset
      <4> QED BY <4>1, <4>2, <4>3, <4>4
    <3>1. RadioTypeOK'
      BY <2>0, <3>0, <1>a DEF RadioTypeOK, MutexReturned, InTx
    <3>2. Held' /\ Placed' /\ phy' = OnPreset(chip.preset)'
      BY <2>0, <3>0, <1>a DEF Held, Placed, InTx, InPass, In, vars, OnPreset
    <3>3. ArmedIsTrue' /\ ToldInPass'
      BY <2>0, <3>0, <1>a DEF ArmedIsTrue, RxListens, In, ToldInPass
    <3> QED BY <3>1, <3>2, <3>3
  <2> QED BY <2>1, <2>2, <1>a
<1>3. CASE TxStart
  <2>1. RadioTypeOK'
    <3>1. loop' \in [at : {"setup", "top", "turn", "rx", "tx"},
                    inner : {"off", "run", "rx", "tx"}]
      BY <1>3, <1>a DEF TxStart, Enter
    <3>2. InTx \in {0, 1} /\ InTx' = InTx + 1
      BY <1>3, <1>a DEF TxStart, MayCall, Enter, In, InTx
    <3>3. lock.depth = InTx
      BY <1>3, <1>a DEF TxStart, LoopMayLock, MutexReturned, RadioTypeOK, Held
    <3>4. lock' = [owner |-> "loop", depth |-> InTx + 1]
      BY <1>3, <3>3 DEF TxStart, Deeper
    <3>5. MutexReturned' /\ lock' \in [owner : {"none", "loop", "task"}, depth : 0 .. 2]
      BY <3>2, <3>4 DEF MutexReturned
    <3>6. chip' \in [mode : {"standby", "rx", "tx"}, preset : Presets, hung : BOOLEAN]
      BY <1>3, <1>a DEF TxStart
    <3> QED BY <1>3, <1>a, <1>c, <3>1, <3>5, <3>6 DEF TxStart
  <2>2. Held' /\ Placed' /\ phy' = OnPreset(chip.preset)'
    BY <1>3, <1>a DEF Held, Placed, InTx, InPass, In, TxStart, MayCall, LoopMayLock, Deeper, Enter, Quiet, vars, OnPreset
  <2>3. ArmedIsTrue' /\ ToldInPass'
    BY <1>3, <1>a DEF ArmedIsTrue, RxListens, In, ToldInPass, TxStart, MayCall, Enter
  <2> QED BY <2>1, <2>2, <2>3
<1>4. CASE TxRefused
  <2>1. RadioTypeOK'
    <3>1. loop' \in [at : {"setup", "top", "turn", "rx", "tx"},
                    inner : {"off", "run", "rx", "tx"}]
      BY <1>4, <1>a DEF TxRefused, Return
    <3>2. InTx' = InTx
      BY <1>4, <1>a DEF TxRefused, MayCall, Return, In, InTx
    <3>3. MutexReturned'
      BY <1>4, <3>2 DEF MutexReturned, TxRefused, RadioTypeOK
    <3>4. chip' \in [mode : {"standby", "rx", "tx"}, preset : Presets, hung : BOOLEAN]
      BY <1>4, <1>a DEF TxRefused, Standby
    <3> QED BY <1>4, <1>a, <1>c, <3>1, <3>3, <3>4 DEF TxRefused, Standby
  <2>2. Held' /\ Placed' /\ phy' = OnPreset(chip.preset)'
    BY <1>4, <1>a DEF Held, Placed, InTx, InPass, In, TxRefused, MayCall, LoopMayLock, Standby, Return, Quiet, vars, OnPreset
  <2>3. ArmedIsTrue' /\ ToldInPass'
    BY <1>4, <1>a DEF ArmedIsTrue, RxListens, In, ToldInPass, TxRefused, MayCall, Standby, Return
  <2> QED BY <2>1, <2>2, <2>3
<1>5. CASE TxEnd
  <2>1. RadioTypeOK'
    <3>1. loop' \in [at : {"setup", "top", "turn", "rx", "tx"},
                    inner : {"off", "run", "rx", "tx"}]
      BY <1>5, <1>a DEF TxEnd, Return
    <3>2. InTx \in {1, 2} /\ InTx' = InTx - 1
      BY <1>5, <1>a DEF TxEnd, Return, In, InTx
    <3>3. lock.owner = "loop" /\ lock.depth = InTx
      BY <3>2 DEF MutexReturned, RadioTypeOK
    <3>4. lock' = IF InTx = 1 THEN [owner |-> "none", depth |-> 0]
                              ELSE [owner |-> "loop", depth |-> InTx - 1]
      BY <1>5, <1>a, <3>3 DEF TxEnd, Shallower
    <3>5. MutexReturned' /\ lock' \in [owner : {"none", "loop", "task"}, depth : 0 .. 2]
      BY <3>2, <3>4 DEF MutexReturned
    <3>6. chip' \in [mode : {"standby", "rx", "tx"}, preset : Presets, hung : BOOLEAN]
      BY <1>5, <1>a DEF TxEnd
    <3> QED BY <1>5, <1>a, <1>c, <3>1, <3>5, <3>6 DEF TxEnd
  <2>2. Held' /\ Placed' /\ phy' = OnPreset(chip.preset)'
    BY <1>5, <1>a DEF RadioTypeOK, MutexReturned, Held, Placed, InTx, InPass, In, TxEnd, Shallower, Return, Quiet, vars, OnPreset
  <2>3. ArmedIsTrue' /\ ToldInPass'
    BY <1>5, <1>a DEF ArmedIsTrue, RxListens, In, ToldInPass, TxEnd, Return
  <2> QED BY <2>1, <2>2, <2>3
<1>6. CASE RxStart
  <2>1. RadioTypeOK'
    <3>1. loop' \in [at : {"setup", "top", "turn", "rx", "tx"},
                    inner : {"off", "run", "rx", "tx"}]
      BY <1>6, <1>a DEF RxStart, Enter
    <3>2. InTx' = InTx
      BY <1>6, <1>a DEF RxStart, MayCall, Enter, In, InTx
    <3>3. MutexReturned'
      BY <1>6, <3>2 DEF MutexReturned, RxStart, RadioTypeOK
    <3>4. /\ chip' \in [mode : {"standby", "rx", "tx"}, preset : Presets, hung : BOOLEAN]
          /\ irq' \in BOOLEAN /\ armed' \in BOOLEAN /\ cut' \in BOOLEAN
      BY <1>6, <1>a DEF RxStart, Receive
    <3> QED BY <1>6, <1>a, <1>c, <3>1, <3>3, <3>4 DEF RxStart
  <2>2. Held' /\ Placed' /\ phy' = OnPreset(chip.preset)'
    BY <1>6, <1>a DEF Held, Placed, InTx, InPass, In, RxStart, MayCall, LoopMayLock, Enter, Receive, Quiet, vars, OnPreset
  <2>3. ArmedIsTrue' /\ ToldInPass'
    BY <1>6, <1>a DEF ArmedIsTrue, RxListens, In, ToldInPass, RxStart, MayCall, Enter, Receive
  <2> QED BY <2>1, <2>2, <2>3
<1>7. CASE RxPop
  <2>0. In = "rx" /\ push' = push /\ UNCHANGED radioVars
    BY <1>7 DEF RxPop, PopBegin, PopFirst, PopSecond
  <2>1. RadioTypeOK'
    BY <2>0 DEF RadioTypeOK, MutexReturned, InTx, radioVars, air, sync
  <2>2. Held' /\ Placed' /\ phy' = OnPreset(chip.preset)'
    BY <2>0 DEF Held, Placed, InTx, InPass, In, radioVars, air, sync, OnPreset
  <2>3. ArmedIsTrue' /\ ToldInPass'
    BY <2>0 DEF ArmedIsTrue, RxListens, In, ToldInPass, radioVars, air, sync
  <2> QED BY <2>1, <2>2, <2>3
<1>8. CASE RxFrame
  <2>0. /\ In = "rx" /\ push' = push /\ pop'.at = "idle" /\ loop' = Return /\ silent' = FALSE
        /\ UNCHANGED <<chip, irq, done, note, armed, lock, task, phy, cut>>
    BY <1>8, <1>a DEF RxFrame, PopRelease, TypeOK, air, sync
  <2>1. RadioTypeOK'
    <3>1. loop' \in [at : {"setup", "top", "turn", "rx", "tx"},
                    inner : {"off", "run", "rx", "tx"}]
      BY <2>0, <1>a DEF Return
    <3>2. InTx' = InTx
      BY <2>0, <1>a DEF Return, In, InTx
    <3>3. MutexReturned'
      BY <2>0, <3>2 DEF MutexReturned, RadioTypeOK
    <3> QED BY <2>0, <1>a, <1>c, <3>1, <3>3
  <2>2. Held' /\ Placed' /\ phy' = OnPreset(chip.preset)'
    BY <2>0, <1>a DEF Held, Placed, InTx, InPass, In, Return, OnPreset
  <2>3. ArmedIsTrue' /\ ToldInPass'
    BY <2>0, <1>a DEF ArmedIsTrue, RxListens, In, Return, ToldInPass
  <2> QED BY <2>1, <2>2, <2>3
<1>9. CASE RxTimeout
  <2>0. /\ In = "rx" /\ push' = push /\ pop'.at = "idle" /\ loop' = Return
        /\ UNCHANGED <<chip, irq, done, note, armed, lock, task, phy, silent, cut>>
    BY <1>9 DEF RxTimeout, Quiet, vars, air, sync
  <2>1. RadioTypeOK'
    BY <2>0, <1>a DEF RadioTypeOK, MutexReturned, InTx, In, Return
  <2>2. Held' /\ Placed' /\ phy' = OnPreset(chip.preset)'
    BY <2>0, <1>a DEF Held, Placed, InTx, InPass, In, Return, OnPreset
  <2>3. ArmedIsTrue' /\ ToldInPass'
    BY <2>0, <1>a DEF ArmedIsTrue, RxListens, In, Return, ToldInPass
  <2> QED BY <2>1, <2>2, <2>3
<1> QED BY <1>1, <1>2, <1>3, <1>4, <1>5, <1>6, <1>7, <1>8, <1>9 DEF Calls

(* A change of the PHY leaves chip, flag and timing on the new preset,     *)
(* whatever the chip was doing and whichever preset it was on.             *)
LEMMA ApplyIs ==
  ASSUME RadioInv, NEW p \in Presets, ApplyModeByIndex(p)
  PROVE  /\ chip' = [chip EXCEPT !.mode = "rx", !.preset = p] /\ phy' = OnPreset(p)
         /\ irq' = FALSE /\ armed' = TRUE /\ cut' = FALSE
<1>1. chip \in [mode : {"standby", "rx", "tx"}, preset : Presets, hung : BOOLEAN]
  BY DEF RadioInv, RadioTypeOK
<1>2. irq' = FALSE /\ armed' = TRUE /\ cut' = FALSE
  BY DEF ApplyModeByIndex
<1>3. CASE p = Gfsk
  BY <1>1, <1>2, <1>3 DEF ApplyModeByIndex, ApplyRadioFsk, OnPreset
<1>4. CASE p # Gfsk
  <2>1. phy.fsk \/ chip.preset # Gfsk
    BY DEF RadioInv, OnPreset
  <2>2. ApplyMode(p)
    BY <1>4 DEF ApplyModeByIndex
  <2> QED BY <1>1, <1>2, <1>4, <2>1, <2>2 DEF ApplyMode, OnPreset
<1> QED BY <1>3, <1>4

(* What the host service does between and inside the loop's calls.         *)
LEMMA HostKeeps ==
  ASSUME RadioInv, Host, TypeOK'
  PROVE  RadioInv'
<1> USE DEF RadioInv
<1>a. /\ chip \in [mode : {"standby", "rx", "tx"}, preset : Presets, hung : BOOLEAN]
      /\ loop \in [at : {"setup", "top", "turn", "rx", "tx"},
                   inner : {"off", "run", "rx", "tx"}]
      /\ TypeOK
  BY DEF RadioTypeOK
<1>1. ASSUME NEW p \in Presets, Switch(p) \/ Command(p) PROVE RadioInv'
  <2>0. /\ LoopMayLock /\ loop.inner = "off" /\ In \in {"turn", "rx", "tx"}
        /\ ApplyModeByIndex(p) /\ UNCHANGED <<done, note, lock, task, loop, silent, push, pop>>
    BY <1>1 DEF Switch, Command, Quiet, vars, In
  <2>1. /\ chip' = [chip EXCEPT !.mode = "rx", !.preset = p] /\ phy' = OnPreset(p)
        /\ irq' = FALSE /\ armed' = TRUE /\ cut' = FALSE
    BY <2>0, ApplyIs
  <2>2. chip' \in [mode : {"standby", "rx", "tx"}, preset : Presets, hung : BOOLEAN]
        /\ chip'.mode = "rx" /\ chip'.preset = p
    BY <2>1, <1>a
  <2>3. phy'.cfg \in Presets /\ phy'.fsk \in BOOLEAN
    BY <2>1 DEF OnPreset
  <2>4. RadioTypeOK'
    BY <2>0, <2>1, <2>2, <2>3, ZenonT(60) DEF RadioTypeOK, MutexReturned, InTx
  <2>5. Held' /\ Placed' /\ phy' = OnPreset(chip.preset)'
    BY <2>0, <2>1, <2>2 DEF Held, Placed, InTx, InPass, In, OnPreset
  <2>6. ArmedIsTrue' /\ ToldInPass'
    BY <2>1, <2>2 DEF ArmedIsTrue, RxListens, ToldInPass
  <2> QED BY <2>4, <2>5, <2>6
<1>2. CASE PairBegin
  <2>0. /\ In \in {"rx", "tx"} /\ loop.inner = "off" /\ pop.at = "idle"
        /\ loop' = [loop EXCEPT !.inner = "run"]
        /\ UNCHANGED <<chip, irq, done, note, armed, lock, task, phy, silent, cut, push, pop>>
    BY <1>2 DEF PairBegin, Quiet, vars, air, sync
  <2>1. RadioTypeOK'
    BY <2>0, <1>a DEF RadioTypeOK, MutexReturned, InTx
  <2>2. Held' /\ Placed' /\ phy' = OnPreset(chip.preset)'
    BY <2>0, <1>a DEF Held, Placed, InTx, InPass, In, OnPreset
  <2>3. ArmedIsTrue' /\ ToldInPass'
    BY <2>0, <1>a DEF ArmedIsTrue, RxListens, In, ToldInPass
  <2> QED BY <2>1, <2>2, <2>3
<1>3. CASE PairEnd
  <2>0. /\ loop.inner = "run" /\ armed /\ loop' = [loop EXCEPT !.inner = "off"]
        /\ cut' = (cut \/ loop.at = "tx") /\ cut' \in BOOLEAN
        /\ UNCHANGED <<chip, irq, done, note, armed, lock, task, phy, silent, push, pop>>
    BY <1>3 DEF PairEnd, Quiet, vars, air, sync
  <2>1. RadioTypeOK'
    BY <2>0, <1>a DEF RadioTypeOK, MutexReturned, InTx
  <2>2. Held' /\ Placed' /\ phy' = OnPreset(chip.preset)'
    BY <2>0, <1>a DEF Held, Placed, InTx, InPass, In, OnPreset
  <2>3. ArmedIsTrue' /\ ToldInPass'
    BY <2>0, <1>a DEF ArmedIsTrue, RxListens, In, ToldInPass
  <2> QED BY <2>1, <2>2, <2>3
<1> QED BY <1>1, <1>2, <1>3 DEF Host

(* The chip, and time. *)
LEMMA WorldKeeps ==
  ASSUME RadioInv, TxDone \/ FrameArrives \/ ChipHangs \/ StuckTime, TypeOK'
  PROVE  RadioInv'
<1> USE DEF RadioInv
<1>a. /\ chip \in [mode : {"standby", "rx", "tx"}, preset : Presets, hung : BOOLEAN]
      /\ TypeOK
  BY DEF RadioTypeOK
<1>1. CASE TxDone
  <2>1. RadioTypeOK'
    BY <1>1, <1>a DEF RadioTypeOK, MutexReturned, InTx, TxDone, Quiet, sync
  <2>2. Held' /\ Placed' /\ phy' = OnPreset(chip.preset)'
    BY <1>1, <1>a DEF Held, Placed, InTx, InPass, In, OnPreset, TxDone, Quiet, vars, sync
  <2>3. ArmedIsTrue' /\ ToldInPass'
    BY <1>1, <1>a DEF ArmedIsTrue, RxListens, In, ToldInPass, TxDone, sync
  <2> QED BY <2>1, <2>2, <2>3
<1>2. CASE FrameArrives
  <2>1. RadioTypeOK'
    BY <1>2, <1>a DEF RadioTypeOK, MutexReturned, InTx, FrameArrives, Quiet, sync
  <2>2. Held' /\ Placed' /\ phy' = OnPreset(chip.preset)'
    BY <1>2, <1>a DEF Held, Placed, InTx, InPass, In, OnPreset, FrameArrives, Quiet, vars, sync
  <2>3. ArmedIsTrue' /\ ToldInPass'
    BY <1>2, <1>a DEF ArmedIsTrue, RxListens, In, ToldInPass, FrameArrives, sync
  <2> QED BY <2>1, <2>2, <2>3
<1>3. CASE ChipHangs
  <2>1. RadioTypeOK'
    <3>1. chip' \in [mode : {"standby", "rx", "tx"}, preset : Presets, hung : BOOLEAN]
      BY <1>3, <1>a DEF ChipHangs
    <3>2. UNCHANGED <<irq, done, note, armed, lock, task, loop, phy, silent, cut>>
      BY <1>3 DEF ChipHangs, sync
    <3> QED BY <3>1, <3>2 DEF RadioTypeOK, MutexReturned, InTx
  <2>2. Held' /\ Placed' /\ phy' = OnPreset(chip.preset)'
    BY <1>3, <1>a DEF Held, Placed, InTx, InPass, In, OnPreset, ChipHangs, Quiet, vars, sync
  <2>3. ArmedIsTrue' /\ ToldInPass'
    BY <1>3, <1>a DEF ArmedIsTrue, RxListens, In, ToldInPass, ChipHangs, sync
  <2> QED BY <2>1, <2>2, <2>3
<1>4. CASE StuckTime
  <2>1. RadioTypeOK'
    BY <1>4, <1>a DEF RadioTypeOK, MutexReturned, InTx, StuckTime, Quiet, sync, air
  <2>2. Held' /\ Placed' /\ phy' = OnPreset(chip.preset)'
    BY <1>4, <1>a DEF Held, Placed, InTx, InPass, In, OnPreset, StuckTime, Quiet, vars, sync, air
  <2>3. ArmedIsTrue' /\ ToldInPass'
    BY <1>4, <1>a DEF ArmedIsTrue, RxListens, In, ToldInPass, StuckTime, sync, air
  <2> QED BY <2>1, <2>2, <2>3
<1> QED BY <1>1, <1>2, <1>3, <1>4

(* The invariant is inductive, relative to the ring's own.                 *)
LEMMA RadioInvStep == RadioInv /\ TypeOK' /\ [RadioNext]_allVars => RadioInv'
<1> SUFFICES ASSUME RadioInv, TypeOK', [RadioNext]_allVars PROVE RadioInv'
  OBVIOUS
<1>1. CASE RadioNext
  BY <1>1, TaskKeeps, CallsKeep, HostKeeps, WorldKeeps DEF RadioNext
<1>2. CASE UNCHANGED allVars
  BY <1>2 DEF allVars, vars, radioVars, air, sync, RadioInv, RadioTypeOK, MutexReturned, InTx,
              TypeOK, Held, InPass, Placed, In, OnPreset, ArmedIsTrue, RxListens, ToldInPass
<1> QED BY <1>1, <1>2

(* In every reachable state of the driver the mutex, the flag, the chip,   *)
(* the timing and the two threads' places fit together.                    *)
THEOREM DriverInvariant == RadioSpec => []RadioInv
<1>1. IInv => TypeOK
  BY DEF IInv
<1> QED BY <1>1, RadioInvInit, RadioInvStep, DriverUsesRing, Inductive, PTL DEF RadioSpec

(* rx_armed_ tells the truth. *)
THEOREM FlagIsTrue == RadioSpec => []ArmedIsTrue
<1>1. RadioInv => ArmedIsTrue
  BY DEF RadioInv
<1> QED BY <1>1, DriverInvariant, PTL

(* No frame waits in a receiving chip with nobody told. *)
THEOREM WakeupsAreKept == RadioSpec => []NoLostWakeup
<1>1. RadioInv => NoLostWakeup
  BY DEF RadioInv, ToldInPass, NoLostWakeup
<1> QED BY <1>1, DriverInvariant, PTL

(* Chip, configuration and timing are of one preset, and that timing is    *)
(* long enough, for every time on air.                                     *)
THEOREM PresetsAgree == RadioSpec => []OnePhy
<1>1. RadioInv => OnePhy
  <2> SUFFICES ASSUME RadioInv PROVE OnePhy
    OBVIOUS
  <2>1. chip.preset \in Presets /\ phy = OnPreset(chip.preset)
    BY DEF RadioInv, RadioTypeOK
  <2> QED BY <2>1, OnPresetFits
<1> QED BY <1>1, DriverInvariant, PTL

(* The radio task never ends a transmission. *)
THEOREM TransmissionsLast == RadioSpec => TxUndisturbed
<1>1. RadioInv /\ [RadioNext]_allVars
        => [chip.mode = "tx" /\ chip'.mode # "tx" => UNCHANGED task]_allVars
  <2> SUFFICES ASSUME RadioInv, RadioNext, chip.mode = "tx", chip'.mode # "tx"
               PROVE  task' = task
    OBVIOUS
  <2>1. lock.owner = "loop" /\ ~InPass /\ loop.at # "setup"
    BY DEF RadioInv, Held, Placed, InTx
  <2>2. ~Task
    BY <2>1 DEF Task, TaskWake, TaskLock, TaskRead, TaskPush, TaskRearm, TaskUnlock, TaskHalt,
                TaskResume, Free, InPass
  <2>3. CASE Calls
    BY <2>1, <2>3 DEF Calls, StartTask, MaybeReinitRadio, TxStart, TxRefused, TxEnd,
                      RxStart, RxPop, RxFrame, RxTimeout, sync, radioVars
  <2>4. CASE Host
    BY <2>4 DEF Host, Switch, Command, PairBegin, PairEnd, sync
  <2>5. CASE TxDone \/ FrameArrives \/ ChipHangs \/ StuckTime
    BY <2>5 DEF TxDone, FrameArrives, ChipHangs, StuckTime, sync
  <2> QED BY <2>2, <2>3, <2>4, <2>5 DEF RadioNext
<1> QED BY <1>1, DriverInvariant, PTL DEF RadioSpec, TxUndisturbed

(* A recovery pass leaves a chip that receives, or that the next Rx arms.  *)
THEOREM ReinitRevives == RadioSpec => RecoveryRevives
<1>1. RadioInv /\ [RadioNext]_allVars
        => [silent /\ loop.at = "top" /\ loop'.at = "turn"
              => ~chip'.hung /\ (armed' <=> chip'.mode = "rx")]_allVars
  <2> SUFFICES ASSUME RadioInv, RadioNext, silent, loop.at = "top", loop'.at = "turn"
               PROVE  ~chip'.hung /\ (armed' <=> chip'.mode = "rx")
    OBVIOUS
  <2>1. loop.inner = "off" /\ In = "top"
    BY DEF RadioInv, Placed, In
  <2>2. loop' # loop
    OBVIOUS
  <2>3. ~Task
    BY <2>2 DEF Task, TaskWake, TaskLock, TaskRead, TaskPush, TaskRearm, TaskUnlock, TaskHalt,
                TaskResume
  <2>4. ~Host
    BY <2>1, <2>2 DEF Host, Switch, Command, PairBegin, PairEnd
  <2>5. ~(TxDone \/ FrameArrives \/ ChipHangs \/ StuckTime)
    BY <2>2 DEF TxDone, FrameArrives, ChipHangs, StuckTime
  <2>6. MaybeReinitRadio
    BY <2>1, <2>3, <2>4, <2>5 DEF RadioNext, Calls, StartTask, TxStart, TxRefused, TxEnd,
                                  RxStart, RxPop, RxFrame, RxTimeout, MayCall
  <2>7. Reinit
    BY <2>6 DEF MaybeReinitRadio
  <2> QED BY <2>7 DEF Reinit
<1> QED BY <1>1, DriverInvariant, PTL DEF RadioSpec, RecoveryRevives
=============================================================================
