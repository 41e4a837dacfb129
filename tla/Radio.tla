-------------------------------- MODULE Radio --------------------------------
(***************************************************************************)
(* The radio driver: the loop that transmits, listens and reconfigures,    *)
(* the radio task that drains the chip into the ring, the DIO1 interrupt,  *)
(* and the recursive mutex, rx_armed_, operation_done_ and the ring between *)
(* them.  The loop's waits run the idle hook: the host service, with its   *)
(* AT commands, executes in the middle of a Tx or an Rx.                   *)
(*                                                                         *)
(* A section under the mutex that only drives the chip is one step; the    *)
(* radio task's pass is cut at each of its operations, and Push and Pop    *)
(* are those of FrameRing, at their own grain.                             *)
(***************************************************************************)
EXTENDS FrameRing

CONSTANTS LoraModes,    \* LoRa presets
          Gfsk,         \* the 'ludicrous' preset
          Toa,          \* time on air of a full frame in each preset (ms)
          MAXWIN,       \* largest burst window of the link
          STORM         \* failed reads in a row before reception is halted

Presets == LoraModes \union {Gfsk}

ASSUME PresetsAssumption == LoraModes # {} /\ Gfsk \notin LoraModes
ASSUME ToaAssumption == Toa \in [Presets -> Nat]
ASSUME LimitsAssumption == MAXWIN \in Nat /\ MAXWIN >= 2 /\ STORM \in Nat \ {0}

VARIABLES chip,    \* mode, the preset it is configured to, whether it hangs
          irq,     \* RX_DONE is up and a frame is in the chip's buffer
          done,    \* operation_done_
          note,    \* the radio task's notification
          armed,   \* rx_armed_
          lock,    \* radio_mutex_: its owner and how often it has taken it
          task,    \* where RadioTask stands; failed reads in a row
          loop,    \* where the loop stands, and a pairing inside its wait
          phy,     \* cfg's preset, phy_fsk_, the timing, the link's timing
          silent,  \* nothing was heard for the radio-stuck timeout
          cut      \* Tx ended although a command in its wait had armed the chip

air  == <<chip, irq, done, note>>
sync == <<armed, lock, task>>
radioVars == <<air, sync, loop, phy, silent, cut>>
allVars == <<vars, radioVars>>
-----------------------------------------------------------------------------
(* Timing of the turns from the time on air (ms). *)
AtLeast(n, floor) == IF n < floor THEN floor ELSE n
AtMost(n, cap) == IF n > cap THEN cap ELSE n

Window(toa) == AtMost(AtLeast(1500 \div toa, 2), MAXWIN)

Timing(t) ==
  LET toa == AtLeast(t, 5)
  IN  [window |-> Window(toa), interframe |-> toa + 60,
       turn_rx |-> 6 * toa + 200,
       listen |-> AtLeast(toa + (toa + 60) + 500, 3000),
       retransmit |-> ((Window(toa) + 2) * toa * 140) \div 100 + 400]
-----------------------------------------------------------------------------
LoopMayLock == lock.owner # "task"
Free == lock.owner = "none"

(* The call the loop is in: a pairing inside the idle hook comes first. *)
In == IF loop.inner = "off" THEN loop.at ELSE loop.inner

Enter(call) == IF loop.inner = "off" THEN [loop EXCEPT !.at = call]
                                     ELSE [loop EXCEPT !.inner = call]
Return == IF loop.inner = "off" THEN [loop EXCEPT !.at = "top"]
                                ELSE [loop EXCEPT !.inner = "run"]

MayCall == In \in {"turn", "run"}
Quiet == UNCHANGED vars

(* startReceive: clears the interrupt status. *)
Receive == chip' = [chip EXCEPT !.mode = "rx"] /\ irq' = FALSE /\ cut' = FALSE
Standby == chip' = [chip EXCEPT !.mode = "standby"] /\ irq' = irq

RadioInit ==
  /\ Init
  /\ \E f \in Frames : slots = [i \in Index |-> <<f, f>>]   \* static storage
                      /\ pop.copy = <<f, f>> /\ push.frame = f
  /\ \E p \in LoraModes :
       /\ chip = [mode |-> "standby", preset |-> p, hung |-> FALSE]
       /\ phy = [cfg |-> p, fsk |-> FALSE, timing |-> Timing(Toa[p]),
                 link |-> Timing(Toa[p])]
  /\ irq = FALSE /\ done = FALSE /\ note = FALSE /\ armed = FALSE
  /\ lock = [owner |-> "none", depth |-> 0]
  /\ task = [at |-> "none", fails |-> 0, failed |-> FALSE]
  /\ loop = [at |-> "setup", inner |-> "off"]
  /\ silent = FALSE /\ cut = FALSE

StartTask == /\ loop.at = "setup"
             /\ Receive /\ armed' = TRUE
             /\ task' = [task EXCEPT !.at = "wait"]
             /\ loop' = [loop EXCEPT !.at = "top"]
             /\ Quiet /\ UNCHANGED <<done, note, lock, phy, silent>>
-----------------------------------------------------------------------------
(* Changing the PHY.  ApplyMode and ApplyRadioFsk leave reception, set the  *)
(* chip and arm it again (the task exists from StartTask on).               *)

(* Coming back from GFSK without clearing phy_fsk_. *)
ApplyMode_KeepsFsk(p) ==
  /\ chip' = [chip EXCEPT !.mode = "rx",
                          !.preset = IF phy.fsk \/ @ # Gfsk THEN p ELSE Gfsk]
  /\ phy' = [phy EXCEPT !.cfg = p, !.timing = Timing(Toa[p]), !.link = Timing(Toa[p])]

(* The timing is derived before the chip is reconfigured. *)
ApplyMode_TimingFirst(p) ==
  /\ chip' = [chip EXCEPT !.mode = "rx",
                          !.preset = IF phy.fsk \/ @ # Gfsk THEN p ELSE Gfsk]
  /\ phy' = [cfg |-> p, fsk |-> FALSE,
             timing |-> Timing(Toa[chip.preset]), link |-> Timing(Toa[chip.preset])]

(* GFSK to LoRa is a begin; from LoRa to LoRa the setters do, which cannot  *)
(* take a chip out of GFSK.                                                 *)
ApplyMode(p) ==
  /\ chip' = [chip EXCEPT !.mode = "rx",
                          !.preset = IF phy.fsk \/ @ # Gfsk THEN p ELSE Gfsk]
  /\ phy' = [cfg |-> p, fsk |-> FALSE,
             timing |-> Timing(Toa[p]), link |-> Timing(Toa[p])]

ApplyRadioFsk ==
  /\ chip' = [chip EXCEPT !.mode = "rx", !.preset = Gfsk]
  /\ phy' = [cfg |-> Gfsk, fsk |-> TRUE,
             timing |-> Timing(Toa[Gfsk]), link |-> Timing(Toa[Gfsk])]

ApplyModeByIndex(p) ==
  /\ IF p = Gfsk THEN ApplyRadioFsk ELSE ApplyMode(p)
  /\ irq' = FALSE /\ armed' = TRUE /\ cut' = FALSE

(* From the loop between two calls (TakeApply, rendezvous, the menu). *)
Switch(p) == /\ loop.at = "turn" /\ loop.inner = "off" /\ LoopMayLock
             /\ ApplyModeByIndex(p)
             /\ Quiet /\ UNCHANGED <<done, note, lock, task, loop, silent>>

(* AT+FMODE, AT+MODE on a responder or AT&F, executed by the idle hook: the *)
(* loop may own the mutex already, which is recursive.                      *)
Command(p) == /\ In \in {"rx", "tx"} /\ loop.inner = "off"
              /\ pop.at = "idle" /\ LoopMayLock
              /\ ApplyModeByIndex(p)
              /\ Quiet /\ UNCHANGED <<done, note, lock, task, loop, silent>>

(* AT+PAIR or AT+TRAIN from the idle hook: calls Tx and Rx itself, and ends *)
(* after an Rx.  RunPairing takes the hook off; the discovery before it     *)
(* polls on, and there AT+PAIR may run once more inside itself: left out.   *)
PairBegin == /\ In \in {"rx", "tx"} /\ loop.inner = "off" /\ pop.at = "idle"
             /\ loop' = [loop EXCEPT !.inner = "run"]
             /\ Quiet /\ UNCHANGED <<air, sync, phy, silent, cut>>

PairEnd == /\ loop.inner = "run" /\ armed
           /\ loop' = [loop EXCEPT !.inner = "off"]
           /\ cut' = (cut \/ loop.at = "tx")
           /\ Quiet /\ UNCHANGED <<air, sync, phy, silent>>

(* Reinit as it would be if it believed the chip still received. *)
Reinit_StaysArmed ==
  IF phy.fsk THEN /\ chip' = [mode |-> "rx", preset |-> Gfsk, hung |-> FALSE]
                  /\ armed' = TRUE
             ELSE /\ chip' = [mode |-> "standby", preset |-> phy.cfg, hung |-> FALSE]
                  /\ armed' = armed

(* NRST and begin.  The GFSK branch arms again, the LoRa branch leaves it   *)
(* to the next Rx.                                                          *)
Reinit ==
  IF phy.fsk THEN /\ chip' = [mode |-> "rx", preset |-> Gfsk, hung |-> FALSE]
                  /\ armed' = TRUE
             ELSE /\ chip' = [mode |-> "standby", preset |-> phy.cfg, hung |-> FALSE]
                  /\ armed' = FALSE

(* Each pass of the turn loop starts with the recoveries. *)
MaybeReinitRadio ==
  /\ loop.at = "top" /\ loop.inner = "off"
  /\ loop' = [loop EXCEPT !.at = "turn"]
  /\ IF silent
     THEN /\ LoopMayLock /\ Reinit
          /\ irq' = FALSE /\ silent' = FALSE /\ cut' = FALSE
          /\ phy' = [phy EXCEPT !.timing = Timing(Toa[chip'.preset])]
     ELSE UNCHANGED <<chip, irq, armed, silent, cut, phy>>
  /\ Quiet /\ UNCHANGED <<done, note, lock, task>>

StuckTime == /\ ~silent /\ loop.at # "setup" /\ silent' = TRUE
             /\ Quiet /\ UNCHANGED <<air, sync, loop, phy, cut>>
-----------------------------------------------------------------------------
(* Tx owns the mutex from the first step to finishTransmit. *)
Deeper == [owner |-> "loop", depth |-> lock.depth + 1]
Shallower == IF lock.depth = 1 THEN [owner |-> "none", depth |-> 0]
                               ELSE [lock EXCEPT !.depth = @ - 1]

(* Standby, then startTransmit, which clears the interrupt status. *)
TxStart == /\ MayCall /\ LoopMayLock
           /\ chip' = [chip EXCEPT !.mode = "tx"]
           /\ irq' = FALSE /\ armed' = FALSE /\ done' = FALSE
           /\ lock' = Deeper
           /\ loop' = Enter("tx")
           /\ cut' = FALSE
           /\ Quiet /\ UNCHANGED <<note, task, phy, silent>>

(* The early return without the Unlock. *)
TxRefused_Locked == /\ MayCall /\ LoopMayLock
                    /\ Standby /\ armed' = FALSE /\ done' = FALSE /\ cut' = FALSE
                    /\ loop' = Return /\ lock' = Deeper
                    /\ Quiet /\ UNCHANGED <<note, task, phy, silent>>

(* startTransmit fails: Unlock and return. *)
TxRefused == /\ MayCall /\ LoopMayLock
             /\ Standby /\ armed' = FALSE /\ done' = FALSE /\ cut' = FALSE
             /\ loop' = Return
             /\ Quiet /\ UNCHANGED <<note, lock, task, phy, silent>>

(* The chip has sent the frame: TX_DONE, an edge on DIO1. *)
TxDone == /\ chip.mode = "tx" /\ ~chip.hung
          /\ chip' = [chip EXCEPT !.mode = "standby"]
          /\ done' = TRUE /\ note' = TRUE
          /\ Quiet /\ UNCHANGED <<irq, sync, loop, phy, silent, cut>>

(* The wait ends with the flag, or at the deadline, which the chip outlasts *)
(* only when it is hung or no longer transmitting.  finishTransmit puts it  *)
(* in standby and clears the interrupt status.                              *)
TxEnd == /\ In = "tx"
         /\ done \/ chip.hung \/ chip.mode # "tx"
         /\ chip' = [chip EXCEPT !.mode = "standby"] /\ irq' = FALSE
         /\ lock' = Shallower
         /\ loop' = Return
         /\ cut' = armed
         /\ Quiet /\ UNCHANGED <<done, note, armed, task, phy, silent>>
-----------------------------------------------------------------------------
(* Rx arms the chip unless rx_armed_ says it is, and pops the ring. *)

(* Rx that takes the chip for armed after a Tx. *)
RxStart_NoArm == /\ MayCall
                 /\ loop' = Enter("rx")
                 /\ Quiet /\ UNCHANGED <<air, sync, phy, silent, cut>>

RxStart == /\ MayCall
           /\ loop' = Enter("rx")
           /\ IF armed THEN UNCHANGED <<chip, irq, armed, cut>>
              ELSE LoopMayLock /\ Receive /\ armed' = TRUE
           /\ Quiet /\ UNCHANGED <<done, note, lock, task, phy, silent>>

RxPop == /\ In = "rx"
         /\ PopBegin \/ PopFirst \/ PopSecond
         /\ UNCHANGED radioVars

RxFrame == /\ In = "rx" /\ PopRelease
           /\ loop' = Return
           /\ silent' = FALSE
           /\ UNCHANGED <<air, sync, phy, cut>>

RxTimeout == /\ In = "rx" /\ pop.at = "idle"
             /\ loop' = Return
             /\ Quiet /\ UNCHANGED <<air, sync, phy, silent, cut>>
-----------------------------------------------------------------------------
(* The chip.  RX_DONE raises DIO1 once: no edge while it is still up. *)
FrameArrives == /\ chip.mode = "rx" /\ ~irq
                /\ irq' = TRUE /\ done' = TRUE /\ note' = TRUE
                /\ Quiet /\ UNCHANGED <<chip, sync, loop, phy, silent, cut>>

ChipHangs == /\ ~chip.hung /\ loop.at # "setup"
             /\ chip' = [chip EXCEPT !.hung = TRUE]
             /\ Quiet /\ UNCHANGED <<irq, done, note, sync, loop, phy, silent, cut>>
-----------------------------------------------------------------------------
(* RadioTask. *)
TaskTo(at) == task' = [task EXCEPT !.at = at]

TaskWake == /\ task.at = "wait" /\ note
            /\ note' = FALSE
            /\ task' = [task EXCEPT !.at = "lock", !.failed = FALSE]
            /\ Quiet /\ UNCHANGED <<chip, irq, done, armed, lock, loop, phy, silent, cut>>

TaskLock == /\ task.at = "lock" /\ Free
            /\ lock' = [owner |-> "task", depth |-> 1]
            /\ TaskTo(IF irq THEN "read" ELSE "unlock")
            /\ Quiet /\ UNCHANGED <<air, armed, loop, phy, silent, cut>>

(* readData: a frame, with the interrupt status cleared; or a CRC error,    *)
(* garbage, a bus error (only these from a hung chip), cleared or not.      *)
TaskRead == /\ task.at = "read"
            /\ \/ /\ ~chip.hung /\ irq' = FALSE
                  /\ task' = [task EXCEPT !.at = "push", !.fails = 0]
               \/ /\ irq' \in {FALSE, irq}
                  /\ task' = [task EXCEPT !.at = "rearm", !.failed = TRUE]
            /\ Quiet
            /\ UNCHANGED <<chip, done, note, armed, lock, loop, phy, silent, cut>>

TaskPush == /\ task.at = "push"
            /\ PushBegin \/ PushFirst \/ PushSecond \/ PushPublish
            /\ TaskTo(IF push'.at = "idle" THEN "rearm" ELSE "push")
            /\ UNCHANGED <<air, armed, lock, loop, phy, silent, cut>>

(* Arming whether reception is wanted or not. *)
TaskRearm_Always == /\ task.at = "rearm"
                    /\ Receive
                    /\ TaskTo("unlock")
                    /\ Quiet /\ UNCHANGED <<done, note, armed, lock, loop, phy, silent>>

TaskRearm == /\ task.at = "rearm"
             /\ IF armed THEN Receive ELSE UNCHANGED <<chip, irq, cut>>
             /\ TaskTo("unlock")
             /\ Quiet /\ UNCHANGED <<done, note, armed, lock, loop, phy, silent>>

(* The notification taken when the pass ends instead of when it begins. *)
TaskUnlock_ClearsNote ==
  /\ task.at = "unlock"
  /\ lock' = [owner |-> "none", depth |-> 0] /\ note' = FALSE
  /\ task' = [task EXCEPT !.at = "wait", !.failed = FALSE]
  /\ Quiet /\ UNCHANGED <<chip, irq, done, armed, loop, phy, silent, cut>>

TaskUnlock ==
  /\ task.at = "unlock"
  /\ lock' = [owner |-> "none", depth |-> 0]
  /\ task' = IF ~task.failed THEN [task EXCEPT !.at = "wait"]
             ELSE IF task.fails + 1 >= STORM
                  THEN [task EXCEPT !.at = "halt", !.fails = 0]
                  ELSE [task EXCEPT !.at = "wait", !.fails = @ + 1]
  /\ Quiet /\ UNCHANGED <<air, armed, loop, phy, silent, cut>>

(* The storm breaker as it would be without its Lock. *)
TaskHalt_NoLock == /\ task.at = "halt"
                   /\ Standby
                   /\ TaskTo("nap")
                   /\ Quiet /\ UNCHANGED <<done, note, armed, lock, loop, phy, silent, cut>>

(* Halt reception, sleep with the mutex free, resume if it is wanted. *)
TaskHalt == /\ task.at = "halt" /\ Free
            /\ Standby
            /\ TaskTo("nap")
            /\ Quiet /\ UNCHANGED <<done, note, armed, lock, loop, phy, silent, cut>>

TaskResume == /\ task.at = "nap" /\ Free
              /\ IF armed THEN Receive ELSE UNCHANGED <<chip, irq, cut>>
              /\ TaskTo("wait")
              /\ Quiet /\ UNCHANGED <<done, note, armed, lock, loop, phy, silent>>
-----------------------------------------------------------------------------
Task == \/ TaskWake \/ TaskLock \/ TaskRead \/ TaskPush \/ TaskRearm
        \/ TaskUnlock \/ TaskHalt \/ TaskResume

Calls == \/ StartTask \/ MaybeReinitRadio
         \/ TxStart \/ TxRefused \/ TxEnd
         \/ RxStart \/ RxPop \/ RxFrame \/ RxTimeout

Host == \/ \E p \in Presets : Switch(p) \/ Command(p)
        \/ PairBegin \/ PairEnd

RadioNext == Task \/ Calls \/ Host \/ TxDone \/ FrameArrives \/ ChipHangs
             \/ StuckTime

RadioSpec == RadioInit /\ [][RadioNext]_allVars
-----------------------------------------------------------------------------
(* Types, and the mutex is held by the loop once for each Tx it is in, on   *)
(* every way out of Tx, a pairing nested in another Tx included.            *)
InTx == (IF loop.at = "tx" THEN 1 ELSE 0) + (IF loop.inner = "tx" THEN 1 ELSE 0)
MutexReturned == IF lock.owner = "loop" THEN lock.depth = InTx ELSE InTx = 0
RadioTypeOK ==
  /\ MutexReturned
  /\ TypeOK
  /\ chip \in [mode : {"standby", "rx", "tx"}, preset : Presets, hung : BOOLEAN]
  /\ irq \in BOOLEAN /\ done \in BOOLEAN /\ note \in BOOLEAN /\ armed \in BOOLEAN
  /\ lock \in [owner : {"none", "loop", "task"}, depth : 0 .. 2]
  /\ task \in [at : {"none", "wait", "lock", "read", "push", "rearm", "unlock",
                     "halt", "nap"},
               fails : 0 .. STORM - 1, failed : BOOLEAN]
  /\ loop \in [at : {"setup", "top", "turn", "rx", "tx"},
               inner : {"off", "run", "rx", "tx"}]
  /\ phy.cfg \in Presets /\ phy.fsk \in BOOLEAN
  /\ silent \in BOOLEAN /\ cut \in BOOLEAN

(* rx_armed_ tells the truth: the chip receives exactly when the flag says  *)
(* so, but for the breaker's nap and for a Tx in whose wait a command or a  *)
(* pairing had armed the chip (Rx would not arm it again); and, with these  *)
(* two exceptions, whoever waits in Rx can be heard: neither a Tx, a        *)
(* refused one included, nor a pairing leaves the wait deaf.                *)
RxListens == In = "rx" => chip.mode = "rx" \/ task.at = "nap" \/ cut
ArmedIsTrue == /\ chip.mode = "rx" => armed
               /\ armed /\ chip.mode # "rx" => task.at = "nap" \/ cut
               /\ RxListens

(* No frame waits in a receiving chip with nobody told: DIO1 stays up and   *)
(* gives no second edge, so a notification lost here would end reception.   *)
NoLostWakeup == irq /\ chip.mode = "rx" => note \/ task.at # "wait"

(* The preset the rest of the firmware is told: GFSK by the flag, a LoRa    *)
(* one by cfg; "none" is the index -1.                                      *)
CurrentModeIndex == IF phy.fsk THEN Gfsk
                    ELSE IF phy.cfg \in LoraModes THEN phy.cfg ELSE "none"

(* The link waits long enough on the PHY it is on: a full window, the       *)
(* peer's frame and the turn-around pass before it resends, and the         *)
(* responder listens for longer than a frame lasts.                         *)
TimingFits ==
  LET toa == Toa[chip.preset]
  IN  /\ phy.link.retransmit > (phy.link.window + 1) * toa + phy.timing.interframe
      /\ phy.timing.listen > toa + phy.timing.interframe
      /\ phy.link.window \in 2 .. MAXWIN

(* The chip is on the preset that cfg and CurrentModeIndex name, and the    *)
(* link keeps its time, whichever of ApplyMode, ApplyRadioFsk and Reinit    *)
(* ran last, in whatever order: the LoRa setters reach only a chip that was *)
(* left in LoRa.                                                            *)
OnePhy == /\ chip.preset = phy.cfg /\ CurrentModeIndex = phy.cfg
          /\ TimingFits

(* The inductive invariant.  Who holds the mutex, from where the two       *)
(* threads stand: the loop inside its Tx, the task inside its pass.        *)
InPass == task.at \in {"read", "push", "rearm", "unlock"}
Held == /\ lock.owner = IF InTx > 0 THEN "loop" ELSE IF InPass THEN "task" ELSE "none"
        /\ lock.owner = "none" => lock.depth = 0
        /\ ~(InTx > 0 /\ InPass)

(* A call is under way only where its caller stands, and what it needs of  *)
(* the chip is so: a transmission belongs to a Tx, and Rx has armed.       *)
Placed == /\ (loop.at = "setup") <=> (task.at = "none")
          /\ loop.inner # "off" => loop.at \in {"rx", "tx"}
          /\ push.at # "idle" => task.at = "push"
          /\ pop.at # "idle" => In = "rx"
          /\ chip.mode = "tx" => InTx > 0
          /\ In = "rx" => armed

(* What the firmware keeps of a preset is all of one preset, the chip's.   *)
OnPreset(p) == [cfg |-> p, fsk |-> (p = Gfsk),
                timing |-> Timing(Toa[p]), link |-> Timing(Toa[p])]

(* A frame that comes while the task ends its pass has told it already.    *)
ToldInPass == irq /\ chip.mode = "rx" /\ task.at \in {"wait", "unlock"} => note

RadioInv == /\ RadioTypeOK /\ Held /\ Placed /\ phy = OnPreset(chip.preset)
            /\ ArmedIsTrue /\ ToldInPass

(* The radio task, storm breaker included, never takes the chip out of a    *)
(* transmission: only the chip, Tx and the commands in its wait do.         *)
TxUndisturbed ==
  [][chip.mode = "tx" /\ chip'.mode # "tx" => UNCHANGED task]_allVars

(* Whatever state it finds, a recovery pass leaves a chip that receives, or *)
(* one that the next Rx will arm: no hang and no false flag outlives it.    *)
RecoveryRevives ==
  [][silent /\ loop.at = "top" /\ loop'.at = "turn"
       => ~chip'.hung /\ (armed' <=> chip'.mode = "rx")]_allVars
=============================================================================
