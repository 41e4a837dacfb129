------------------------------ MODULE LinkBudget ------------------------------
(***************************************************************************)
(* The transmit powers of the two ends: Host::AdjustTxPower and the        *)
(* control law of lib/linklayer/autopower, the SNR reports it is fed by    *)
(* (the aux byte of every frame), and the radio that takes the result.     *)
(* Each end hears the other as loudly as its power and the path between    *)
(* them allow; ADR, if it is on, picks the mode by what the initiator      *)
(* hears and knows nothing of powers.                                      *)
(*                                                                         *)
(* Powers and reports are in dB, what the chip measures and the floors of  *)
(* the ladder in half dB.  Silence is counted in status periods.           *)
(***************************************************************************)
EXTENDS Ladder

CONSTANTS
    MinDbm, MaxDbm,     \* kApPwrFloorDbm and kTxPowerDbm, the limits of the chip too
    SavedDbm,           \* the powers a board may have been saved with
    MarginLo, MarginHi, \* kAutoPwrMarginLo, kAutoPwrMarginHi
    NoSignal,           \* kApNoSignalSnr
    ApSilent,           \* kApSilentMs
    Paths,              \* bound: the losses of a path that occur, in half dB
    MaxFaults           \* bound: lost frames, restarts and moves before the link settles

ASSUME PowerAssumption == /\ MinDbm \in Int /\ MaxDbm \in Int
                          /\ SavedDbm \subseteq MinDbm .. MaxDbm /\ SavedDbm # {}
ASSUME LawAssumption == /\ MarginLo \in Int /\ MarginHi \in Int /\ MarginLo <= MarginHi
                        /\ NoSignal \in Int /\ ApSilent \in Nat \ {0} /\ Paths \subseteq Int
                        /\ MaxFaults \in Nat

Ends == {"initiator", "responder"}
Other(n) == IF n = "initiator" THEN "responder" ELSE "initiator"
Step == 2

VARIABLES
    tx,        \* tx_power_ of each end
    amp,       \* the power its chip was last set to
    report,    \* the initiator's tx_aux_: what it says of the other's signal;
               \*   the responder sets its own afresh for every reply
    told,      \* rx_aux_ of each end: what the other said of its signal
    heard,     \* the SNR of the last frame the initiator heard
    silence,   \* periods since then
    phy,       \* the mode both are in
    auto,      \* FEAT_ADR
    path,      \* the loss towards each end
    turned,    \* a turn was made in this period
    faults     \* what is left of MaxFaults; with none the paths stay as they
               \*   are, no frame is lost and nobody restarts

ends == <<tx, amp, report, told, heard, silence>>
budgetVars == <<ends, phy, auto, path, turned, faults>>
-----------------------------------------------------------------------------
(* lroundf and ceilf of half a number. *)
Rounded(half) == IF half >= 0 THEN (half + 1) \div 2 ELSE -((1 - half) \div 2)
Ceiling(half) == (half + 1) \div 2

SnrToAux(half) == Rounded(IF half > 254 THEN 254 ELSE IF half < -256 THEN -256 ELSE half)

Silent(n) == silence[n] > ApSilent

(* No step while the feedback is stale. *)
AutoPowerStep_HoldsSilent(cur, peerSnr, floor, silent) ==
    CASE ~silent /\ peerSnr - floor > MarginHi /\ cur > MinDbm -> cur - Step
      [] ~silent /\ peerSnr - floor < MarginLo /\ cur < MaxDbm -> cur + Step
      [] OTHER -> cur

(* Boosting up to the upper mark: no gap between the two. *)
AutoPowerStep_NoGap(cur, peerSnr, floor, silent) ==
    CASE silent \/ (peerSnr - floor <= MarginHi /\ cur < MaxDbm) ->
             IF cur + Step > MaxDbm THEN MaxDbm ELSE cur + Step
      [] peerSnr - floor > MarginHi /\ cur > MinDbm -> cur - Step
      [] OTHER -> cur

(* A step from a power just below the maximum is not cut. *)
AutoPowerStep_TwoSteps(cur, peerSnr, floor, silent) ==
    CASE silent /\ cur <= MaxDbm -> cur + Step
      [] ~silent /\ peerSnr - floor > MarginHi /\ cur > MinDbm -> cur - Step
      [] ~silent /\ peerSnr - floor < MarginLo /\ cur < MaxDbm -> cur + Step
      [] OTHER -> cur

AutoPowerStep(cur, peerSnr, floor, silent) ==
    CASE silent -> IF cur + Step > MaxDbm THEN MaxDbm ELSE cur + Step
      [] ~silent /\ peerSnr - floor > MarginHi /\ cur > MinDbm -> cur - Step
      [] ~silent /\ peerSnr - floor < MarginLo /\ cur < MaxDbm -> cur + Step
      [] OTHER -> cur

(* snr_floor, and next_faster_snr_floor with its own rounding. *)
AutoPowerTargetFloor(m) ==
    IF auto /\ m # FastestAutoLora THEN Ceiling(Floor[m - 1]) ELSE Rounded(Floor[m])

(* SetTxPower: the chip ignores a power that it does not have. *)
SetTxPower(n, dbm) ==
    /\ tx' = [tx EXCEPT ![n] = dbm]
    /\ amp' = [amp EXCEPT ![n] = IF dbm \in MinDbm .. MaxDbm THEN dbm ELSE @]
-----------------------------------------------------------------------------
(* A turn.  n can hear the other if its frames come in above the floor.    *)
Snr(n) == 2 * amp[Other(n)] - path[n]
Audible(n, m) == 2 * amp[Other(n)] - path[n] >= Floor[m]

(* A deaf end goes on reporting what it heard last. *)
Report_Stale(half, age) == SnrToAux(half)

(* SetAuxTx, after its receive window. *)
Report(half, age) == IF age > ApSilent THEN NoSignal ELSE SnrToAux(half)

Fault == faults > 0 /\ faults' = faults - 1
NoFault == faults' = faults

(* The responder answers if it has heard the burst, with a report of it;   *)
(* the initiator reports after every turn.                                 *)
Turn(answered, replied) ==
    LET got == {n \in Ends : IF n = "responder" THEN answered ELSE replied}
        age == IF replied THEN 0 ELSE silence["initiator"]
    IN  /\ answered => Audible("responder", phy)
        /\ replied => answered /\ Audible("initiator", phy)
        /\ IF /\ answered = Audible("responder", phy)
              /\ replied = (answered /\ Audible("initiator", phy))
           THEN NoFault ELSE Fault
        /\ heard' = IF replied THEN Snr("initiator") ELSE heard
        /\ report' = Report(heard', age)
        /\ silence' = [n \in Ends |-> IF n \in got THEN 0 ELSE silence[n]]
        /\ told' = [n \in Ends |-> CASE n \notin got -> told[n]
                                     [] n \in got /\ n = "responder" -> report
                                     [] OTHER -> Report(Snr("responder"), 0)]
        /\ turned' = TRUE
        /\ UNCHANGED <<tx, amp, phy, auto, path>>

(* AdjustTxPower of both ends, each from its own end's state. *)
Adjusted == [n \in Ends |-> AutoPowerStep(tx[n], told[n], AutoPowerTargetFloor(phy), Silent(n))]

(* A status period passes; the loop has come round at least once in it.    *)
MaybeStatus ==
    /\ turned /\ turned' = FALSE
    /\ tx' = Adjusted
    /\ amp' = [n \in Ends |-> IF Adjusted[n] \in MinDbm .. MaxDbm THEN Adjusted[n] ELSE amp[n]]
    /\ silence' = [n \in Ends |-> IF Silent(n) THEN silence[n] ELSE silence[n] + 1]
    /\ UNCHANGED <<report, told, heard, phy, auto, path, faults>>

(* ADR takes both ends to the mode of its choice.  Where one of them is not *)
(* heard there they come back when the probation is over, longer than       *)
(* kApSilentMs: AdjustTxPower has found the silence by then.                *)
SwitchMode ==
    LET m == PickBySnr(heard)
    IN  /\ auto /\ silence["initiator"] = 0 /\ m # phy
        /\ IF \A n \in Ends : Audible(n, m)
           THEN phy' = m /\ silence' = silence
           ELSE phy' = phy /\ silence' = [n \in Ends |-> ApSilent + 1]
        /\ UNCHANGED <<tx, amp, report, told, heard, auto, path, turned, faults>>

(* Link::Init or NewSession: the telemetry is dropped. *)
NewSession(n) ==
    /\ Fault
    /\ told' = [told EXCEPT ![n] = 0]
    /\ UNCHANGED <<tx, amp, report, heard, silence, phy, auto, path, turned>>

(* A power-up: LoadSettings takes the saved power; last_rx_ms_ is 0. *)
PowerUp(n) ==
    /\ Fault
    /\ \E dbm \in SavedDbm : SetTxPower(n, dbm)
    /\ told' = [told EXCEPT ![n] = 0] /\ silence' = [silence EXCEPT ![n] = 0]
    /\ IF n = "initiator" THEN report' = 0 /\ heard' = 0 ELSE UNCHANGED <<report, heard>>
    /\ UNCHANGED <<phy, auto, path, turned>>

(* A board is moved; the two paths need not be alike. *)
Moves == /\ Fault
         /\ \E n \in Ends, l \in Paths : path' = [path EXCEPT ![n] = l]
         /\ UNCHANGED <<ends, phy, auto, turned>>

BudgetInit ==
    /\ \E dbm \in [Ends -> SavedDbm] : tx = dbm /\ amp = dbm
    /\ report = 0 /\ heard = 0
    /\ told = [n \in Ends |-> 0] /\ silence = [n \in Ends |-> 0]
    /\ phy \in LoRa /\ auto \in BOOLEAN /\ path \in [Ends -> Paths]
    /\ turned = FALSE /\ faults = MaxFaults

BudgetNext == \/ \E a, r \in BOOLEAN : Turn(a, r)
              \/ MaybeStatus \/ SwitchMode \/ Moves
              \/ \E n \in Ends : NewSession(n) \/ PowerUp(n)

(* The loop runs. *)
BudgetFairness == /\ WF_budgetVars(MaybeStatus)
                      /\ WF_budgetVars(~turned /\ \E a, r \in BOOLEAN : Turn(a, r))
                      /\ WF_budgetVars(SwitchMode)

BudgetSpec == BudgetInit /\ [][BudgetNext]_budgetVars /\ BudgetFairness
-----------------------------------------------------------------------------
(* Types: a power is never more than a step's odd half outside its range,  *)
(* and the chip is always at one it has.                                   *)
PowerTypeOK ==
    /\ tx \in [Ends -> MinDbm - 1 .. MaxDbm + 1]
    /\ amp \in [Ends -> MinDbm .. MaxDbm]
    /\ phy \in LoRa /\ silence \in [Ends -> 0 .. ApSilent + 1]

(* autopower.h, link_silent and kApNoSignalSnr: whatever the powers, paths *)
(* and reports were, two ends come to hear each other and stay so, if a    *)
(* power 1 dB below the limit can join them: a rise of 2 dB may end there. *)
Reachable == \A n \in Ends : 2 * (MaxDbm - 1) - path[n] >= Floor[phy]
StaysLinked == <>[](Reachable => \A n \in Ends : Audible(n, phy))

(* autopower.h, kAutoPwrMarginLo: "deliberate hysteresis so the loop can't *)
(* oscillate".  In a pinned mode, and under ADR where both paths are alike,*)
(* the powers and the mode come to rest.                                   *)
Settles == <>[][(auto => path["initiator"] = path["responder"])
                => UNCHANGED <<tx, phy>>]_budgetVars
(* fw_host.cpp, kApPwrFloorDbm: "lowest TX power (dBm) the peer-SNR        *)
(* auto-power loop will drop to".                                          *)
FloorHolds == \A n \in Ends : tx[n] >= MinDbm

(* fw_radio.cpp, next_faster_snr_floor: "rounding up keeps the held margin *)
(* clear of the climb threshold".  An end that holds its power, told how   *)
(* it is heard, is heard well enough for the next mode.                    *)
HeldMarginClears ==
    [][(/\ auto /\ phy # FastestAutoLora /\ turned /\ ~turned'
        /\ tx'["responder"] = tx["responder"] /\ tx["responder"] < MaxDbm
        /\ ~Silent("responder") /\ silence["initiator"] = 0
        /\ heard = Snr("initiator") /\ told["responder"] = SnrToAux(heard))
       => PickBySnr(heard) < phy]_budgetVars
=============================================================================
