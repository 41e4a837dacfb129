----------------------------- MODULE ModeSwitch -----------------------------
(***************************************************************************)
(* The make-before-break handshake that moves both ends to another PHY     *)
(* mode, as pure functions of one end's state (lib/linklayer/modeswitch).  *)
(* The control nibble keeps its code's arithmetic, divided by 16: bit 0 is *)
(* the ACK flag, the three bits above it the mode index plus one.          *)
(***************************************************************************)
EXTENDS Integers

CONSTANT Modes       \* indices of the mode table

ASSUME ModesAssumption == Modes \subseteq 0 .. 6

None == -1

Nibbles == 0 .. 15

Switches == [current : Modes, prev : Modes,
             target : Modes \union {None},   \* initiator: asked for
             armed : Modes \union {None},    \* responder: to enter after TX
             apply : Modes \union {None},    \* due to be applied
             owe_ack : Modes \union {None},
             probation : BOOLEAN]

CtrlEncode(m, ack) ==
  IF m < 0 THEN 0 ELSE 2 * ((m + 1) % 8) + (IF ack THEN 1 ELSE 0)
CtrlPresent(nib) == nib \div 2 # 0

(* The index as it is in the nibble, one too high. *)
CtrlModeIdx_NotShifted(nib) == IF CtrlPresent(nib) THEN nib \div 2 ELSE None

CtrlModeIdx(nib) == IF CtrlPresent(nib) THEN nib \div 2 - 1 ELSE None
CtrlIsAck(nib) == nib % 2 = 1

Begin(m) == [current |-> m, prev |-> m, target |-> None, armed |-> None,
             apply |-> None, owe_ack |-> None, probation |-> FALSE]

Busy(ms) == \/ ms.target # None \/ ms.armed # None \/ ms.apply # None
            \/ ms.probation

Request(ms, m) ==
  IF m = ms.current \/ Busy(ms) THEN ms ELSE [ms EXCEPT !.target = m]

Abort(ms) == [ms EXCEPT !.target = None, !.armed = None, !.owe_ack = None]

TxCtrl(ms) == CASE ms.owe_ack # None -> CtrlEncode(ms.owe_ack, TRUE)
                [] ms.owe_ack = None /\ ms.target # None
                     -> CtrlEncode(ms.target, FALSE)
                [] OTHER -> 0

(* Any frame proves the PHY; a control nibble moves the exchange on. *)
AfterRecv(ms, rx, isInitiator) ==
  LET m     == CtrlModeIdx(rx)
      heard == [ms EXCEPT !.probation = FALSE]
  IN CASE isInitiator /\ CtrlPresent(rx) /\ CtrlIsAck(rx) /\ m = ms.target
            -> [heard EXCEPT !.apply = m, !.target = None]
       [] ~isInitiator /\ CtrlPresent(rx) /\ ~CtrlIsAck(rx)
          /\ m # ms.current /\ ms.armed = None
            -> [heard EXCEPT !.owe_ack = m, !.armed = m]
       [] OTHER -> heard

AfterSend(ms) ==
  IF ms.armed = None THEN ms
  ELSE [ms EXCEPT !.apply = ms.armed, !.armed = None, !.owe_ack = None]

(* Poll at a moment when the probation window is over. *)
PollExpired(ms) ==
  IF ms.probation THEN [ms EXCEPT !.probation = FALSE, !.apply = ms.prev]
                  ELSE ms

(* A switch that trusts the new PHY at once. *)
Service_NoProbation(ms) ==
  IF ms.apply = None THEN ms
  ELSE [ms EXCEPT !.apply = None, !.probation = FALSE,
                  !.current = ms.apply,
                  !.prev = IF ms.apply # ms.current THEN ms.current ELSE @]

(* TakeApply until nothing is due, as Device::ServiceModeSwitch calls it. *)
Service(ms) ==
  IF ms.apply = None THEN ms
  ELSE [ms EXCEPT !.apply = None, !.probation = TRUE,
                  !.current = ms.apply,
                  !.prev = IF ms.apply # ms.current THEN ms.current ELSE @]

=============================================================================
