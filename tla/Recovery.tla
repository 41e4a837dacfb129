------------------------------- MODULE Recovery -------------------------------
(***************************************************************************)
(* The recovery ladder of two boards that have lost each other: re-init of *)
(* a deaf radio, rendezvous on the known mode, reboot, in the order of a   *)
(* pass of Device::Loop, with the times of RecoveryMs, which follow the    *)
(* time on air of the mode a board is in at that moment.                   *)
(*                                                                         *)
(* Both clocks tick together; a tick is the shortest of the times.  The    *)
(* ages are those the code takes by subtraction, counted up to the largest *)
(* time they are compared with.                                            *)
(***************************************************************************)
EXTENDS Ladder

CONSTANTS
    Boards,
    Meeting,               \* the mode named "medium", which rendezvous falls back to
    SavedMode,             \* the mode both boards boot into
    Stuck, Apart, Lost,    \* RecoveryMs of the three steps, in ticks, in each mode
    MaxUpsets              \* bound: what goes wrong before the air is good

ASSUME BoardsAssumption == Cardinality(Boards) = 2 /\ {Meeting, SavedMode} \subseteq LoRa
ASSUME TimesAssumption == /\ {Stuck, Apart, Lost} \subseteq [Modes -> Nat \ {0}]
                          /\ \A m \in Modes : Stuck[m] <= Apart[m] /\ Apart[m] < Lost[m]
                          /\ MaxUpsets \in Nat

MostStuck == Max({Stuck[m] : m \in Modes})
MostApart == Max({Apart[m] : m \in Modes})
MostLost == Max({Lost[m] : m \in Modes})

VARIABLES
    board,     \* of each board: the mode its radio is in; last_rx_ms_ # 0, it has
               \*   heard the other since it booted; the times since last_rx_ms_ (or
               \*   since it booted), last_reinit_ms_ and last_rendezvous_ms_; whether
               \*   the radio is deaf, until a re-init ("soft") or a reboot ("hard")
    adapts,    \* FEAT_ADR of each board
    upsets,    \* what is left of MaxUpsets
    tried      \* of each board, since it was last heard or switched on: the steps
               \*   taken since it booted, its reboots, the steps before the last

recoveryVars == <<board, adapts, upsets, tried>>
-----------------------------------------------------------------------------
Later(age, most) == IF age < most THEN age + 1 ELSE age

(* GFSK is saved as SF 0, which is no mode of the table. *)
Boot_Unnamed == [at |-> None, linked |-> FALSE, unheard |-> 0, reinit |-> 0,
                 fallback |-> 0, wedge |-> "no"]

Boot == [at |-> SavedMode, linked |-> FALSE, unheard |-> 0, reinit |-> 0,
         fallback |-> 0, wedge |-> "no"]
Untried == [steps |-> {}, reboots |-> 0, before |-> {}]

(* What a pass makes of one board. *)
Aged(r) == [r EXCEPT !.unheard = Later(@, MostLost), !.reinit = Later(@, MostStuck),
                     !.fallback = Later(@, MostApart)]

(* One time for all modes, that of the slowest. *)
IsStuck_OneTime(r) == r.unheard >= MostStuck /\ r.reinit >= MostStuck

IsStuck(r) == r.unheard >= Stuck[r.at] /\ r.reinit >= Stuck[r.at]

(* A re-init that ends the silence. *)
MaybeReinitRadio_Heard(r) ==
    IF IsStuck(r) THEN [r EXCEPT !.reinit = 0, !.unheard = 0,
                                 !.wedge = IF @ = "soft" THEN "no" ELSE @]
    ELSE r

MaybeReinitRadio(r) ==
    IF IsStuck(r) THEN [r EXCEPT !.reinit = 0, !.wedge = IF @ = "soft" THEN "no" ELSE @]
    ELSE r

(* A pinned mode stays, but for GFSK. *)
IsApart(r, adaptive) ==
    (adaptive \/ r.at \in Fsk) /\ r.unheard >= Apart[r.at] /\ r.fallback >= Apart[r.at]

MaybeRendezvous(r, adaptive) ==
    IF IsApart(r, adaptive) THEN [r EXCEPT !.fallback = 0, !.at = Meeting] ELSE r

(* Without the gate on last_rx_ms_. *)
IsLost_Ungated(r) == r.unheard >= Lost[r.at]

IsLost(r) == r.linked /\ r.unheard >= Lost[r.at]

MaybeReboot(r) == IF IsLost(r) THEN Boot ELSE r

Taken(aged, fixed, b) ==
    LET steps == tried[b].steps
                   \union (IF IsStuck(aged) THEN {"reinit"} ELSE {})
                   \union (IF IsApart(fixed, adapts[b]) THEN {"rendezvous"} ELSE {})
    IN  IF IsLost(MaybeRendezvous(fixed, adapts[b]))
        THEN [steps |-> {}, reboots |-> Later(tried[b].reboots, 3), before |-> steps]
        ELSE [tried[b] EXCEPT !.steps = steps]
-----------------------------------------------------------------------------
RecoveryInit ==
    /\ board = [b \in Boards |-> Boot]
    /\ adapts \in [Boards -> BOOLEAN]
    /\ upsets = MaxUpsets
    /\ tried = [b \in Boards |-> Untried]

Together == \A b, c \in Boards : board[b].at = board[c].at /\ board[b].wedge = "no"

(* A turn: both hear the other. *)
Meet == /\ Together
        /\ board' = [b \in Boards |-> [board[b] EXCEPT !.linked = TRUE, !.unheard = 0]]
        /\ tried' = [b \in Boards |-> Untried]
        /\ UNCHANGED <<adapts, upsets>>

(* A tick in which nothing was heard: each loop makes its pass. *)
Tick == /\ ~Together \/ upsets > 0
        /\ \E aged \in {[b \in Boards |-> Aged(board[b])]} :
           \E fixed \in {[b \in Boards |-> MaybeReinitRadio(aged[b])]} :
              /\ board' = [b \in Boards |-> MaybeReboot(MaybeRendezvous(fixed[b], adapts[b]))]
              /\ tried' = [b \in Boards |-> Taken(aged[b], fixed[b], b)]
        /\ UNCHANGED <<adapts, upsets>>

Upset == upsets > 0 /\ upsets' = upsets - 1

(* A switch that only one end completed, or AT+FMODE on one board. *)
Diverge(b, m) == /\ Upset /\ board[b].linked
                 /\ board' = [board EXCEPT ![b].at = m]
                 /\ UNCHANGED <<adapts, tried>>

(* AT+MODE on the initiator takes both ends along; nothing is saved. *)
Pin(m) == /\ Upset /\ Together /\ \A b \in Boards : board[b].linked
          /\ board' = [b \in Boards |-> [board[b] EXCEPT !.at = m]]
          /\ \E b \in Boards : adapts' = [adapts EXCEPT ![b] = FALSE]
          /\ tried' = tried

(* Nothing but its power switch ends a hard wedge of a board that has not   *)
(* been heard since it booted; that one is left out.                       *)
Wedges(b, how) == /\ Upset /\ board[b].wedge = "no"
                  /\ how = "hard" => board[b].linked
                  /\ board' = [board EXCEPT ![b].wedge = how]
                  /\ UNCHANGED <<adapts, tried>>

PowerCycle(b) == /\ Upset
                 /\ board' = [board EXCEPT ![b] = Boot]
                 /\ tried' = [tried EXCEPT ![b] = Untried]
                 /\ UNCHANGED adapts

(* The air is good from now on. *)
Clears == upsets > 0 /\ upsets' = 0 /\ UNCHANGED <<board, adapts, tried>>

RecoveryNext ==
    \/ Meet \/ Tick \/ Clears
    \/ \E b \in Boards : \/ PowerCycle(b)
                         \/ \E m \in Modes : Diverge(b, m)
                         \/ \E how \in {"soft", "hard"} : Wedges(b, how)
    \/ \E m \in Modes : Pin(m)

(* The loops run. *)
RecoveryFairness == WF_recoveryVars(Meet \/ Tick) /\ WF_recoveryVars(Clears)

RecoverySpec == RecoveryInit /\ [][RecoveryNext]_recoveryVars /\ RecoveryFairness
-----------------------------------------------------------------------------
Steps == {"reinit", "rendezvous"}

(* Types: every board is in a mode of the table.                           *)
RecoveryTypeOK ==
    /\ board \in [Boards -> [at : Modes, linked : BOOLEAN, unheard : 0 .. MostLost,
                             reinit : 0 .. MostStuck, fallback : 0 .. MostApart,
                             wedge : {"no", "soft", "hard"}]]
    /\ adapts \in [Boards -> BOOLEAN] /\ upsets \in 0 .. MaxUpsets
    /\ tried \in [Boards -> [steps : SUBSET Steps, reboots : 0 .. 3, before : SUBSET Steps]]

(* fw_device.cpp, MaybeReboot: it comes "despite the cheaper recoveries":  *)
(* in the same silence a re-init was tried, and a rendezvous if the board  *)
(* adapts.                                                                 *)
RebootIsLast ==
    \A b \in Boards : tried[b].reboots > 0
        => "reinit" \in tried[b].before /\ (adapts[b] => "rendezvous" \in tried[b].before)

(* fw_device.cpp, MaybeReboot: "a node waiting for an absent peer won't    *)
(* boot-loop", and reboots at all only as the last resort.                 *)
NoBootLoop == RebootIsLast /\ \A b \in Boards : tried[b].reboots <= 1

(* A step not taken since the board was last heard has been due for as     *)
(* long as the silence lasts; a board that rebooted has not heard anyone.  *)
StepsAreDue ==
    \A b \in Boards :
        /\ "reinit" \in tried[b].steps \/ board[b].reinit = MostStuck
              \/ board[b].unheard <= board[b].reinit
        /\ "rendezvous" \in tried[b].steps \/ board[b].fallback = MostApart
              \/ board[b].unheard <= board[b].fallback
        /\ tried[b].reboots > 0 => ~board[b].linked

RecoveryInv == RecoveryTypeOK /\ StepsAreDue /\ NoBootLoop

(* fw_device.cpp, MaybeRendezvous: "the link always recovers - no matter   *)
(* how a switch failed"; pinned boards, which never fall back, come        *)
(* together again by rebooting.                                            *)
Recovers == <>[]Together

(* fw_device.cpp: "always preserving the escalation order radio-stuck <    *)
(* rendezvous < reboot": a rendezvous has a tick to work before the reboot.*)
Escalates ==
    [][\A b \in Boards : tried'[b].reboots > tried[b].reboots /\ adapts[b]
         => "rendezvous" \in tried[b].steps]_recoveryVars
=============================================================================
