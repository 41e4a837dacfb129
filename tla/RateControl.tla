----------------------------- MODULE RateControl -----------------------------
(***************************************************************************)
(* The initiator's rate control: AdrController (lib/linklayer/adr), the    *)
(* device code that feeds it and carries out what it decides (DriveAdr,    *)
(* MaybeRendezvous, ServiceModeSwitch), and this end of the mode-switch    *)
(* handshake.  The peer is whatever may be heard: an acknowledgement of    *)
(* the mode asked for, a plain frame, or nothing.                          *)
(*                                                                         *)
(* Time passes in evaluation periods (period_ms).  What the code compares  *)
(* by subtraction is kept as an age; cooldown_until_ and penalized_until_, *)
(* compared as absolute times, as the periods left until then.  After 49   *)
(* days millis() wraps: the ages go on, and a deadline once set lies in    *)
(* the future again, for as long as the board had been up when it was set. *)
(* A deadline set so late that it overflows is void until the wrap, and    *)
(* takes effect then for what is left of it.                               *)
(***************************************************************************)
EXTENDS Ladder

CONSTANTS
    RendezvousMode,   \* the mode named "medium"
    BootMode,
    UpStable, DownRetx, UpMaxRetx,     \* up_stable, down_retx_pct, up_max_retx_pct
    SwitchTimeout, Cooldown, Penalty,  \* in periods
    Rendezvous, Probation,             \* silence and probation, in periods
    MaxWraps,         \* bound: how often millis() wraps
    LastPeriods,      \* bound: for how long before that deadlines may overflow
    Readings,         \* bound: the SNR in half dB and the RSSI (strong: gfsk_up_rssi
                      \*   is reached) that occur
    BestReading,      \* what a calm channel shows
    Retxs             \* bound: the retx ratios that occur; too few frames for a
                      \*   ratio, -1 in the code, compares like 0

ASSUME BootAssumption == RendezvousMode \in LoRa /\ BootMode \in LoRa
ASSUME TimerAssumption == /\ {SwitchTimeout, Cooldown, Penalty, Rendezvous} \subseteq Nat \ {0}
                          /\ Probation \in Nat \ {0, 1} /\ MaxWraps \in Nat /\ LastPeriods \in Nat \ {0}
                          /\ UpStable \in Nat \ {0} /\ DownRetx \in Nat /\ UpMaxRetx \in Nat
                          /\ Retxs \subseteq 0 .. 100 /\ 0 \in Retxs /\ BestReading \in Readings

VARIABLES
    adr,      \* AdrController's members
    own,      \* this end's ModeSwitch
    radio,    \* cached SNR and RSSI of the last frame
    loss,     \* 100 * DbgStatRetx / DbgStatTx, and whether a data frame was
              \*   sent since the mode was applied
    clocks,   \* ages, in periods: of the last frame heard, of the last
              \*   rendezvous, of the probation
    calm,     \* the channel is good from now on
    wraps,    \* what is left of MaxWraps; the periods until the wrap once it
              \*   is near, else 0
    history   \* ages of the last fallback and of the last request; evaluations
              \*   in a row, up to the last, that saw no loss

rateVars == <<adr, own, radio, loss, clocks, calm, wraps, history>>
-----------------------------------------------------------------------------
RateInit ==
    /\ adr = [age |-> 0,                          \* of switch_at_
              cooldown_until |-> None, want |-> None, stable |-> 0,
              penalized |-> None, penalized_until |-> None]
    /\ own = Begin(BootMode)
    /\ radio = [have |-> FALSE, reading |-> [snr |-> 0, strong |-> FALSE]]
    /\ loss = [retx |-> 0, fresh |-> FALSE]
    /\ clocks = [heard |-> 0, rendezvous |-> 0, probation |-> 0]
    /\ calm = FALSE /\ wraps = [left |-> MaxWraps, near |-> 0]
    /\ history = [fallback |-> Penalty, asked |-> 0, clean |-> 0]

-----------------------------------------------------------------------------
(* A deadline: the periods left (Long: those of a revived one), 0 once it  *)
(* has passed, None if it was never set; above Long one that overflowed,   *)
(* which compares like one that has passed.                                *)
Long == Cooldown + Penalty
Ticks == {None} \union 0 .. Long + Long
Ahead(deadline) == deadline \in 1 .. Long
Void(deadline) == deadline > Long

ToWrap == IF wraps.near > 0 THEN wraps.near - 1 ELSE 0
Until(periods) == IF ToWrap > 0 /\ periods >= ToWrap THEN Long + periods ELSE periods

(* A period passes, the last one before the wrap or another. *)
Nearer(deadline) ==
    IF wraps.near = 1
    THEN CASE deadline = None -> None
           [] Void(deadline) -> deadline - Long - 1
           [] OTHER -> Long
    ELSE IF deadline \in {None, 0, Long} THEN deadline ELSE deadline - 1

(* The last periods before the wrap begin, in which deadlines overflow. *)
WrapNears ==
    /\ wraps.left > 0 /\ wraps.near = 0
    /\ {adr.cooldown_until, adr.penalized_until} \subseteq None .. LastPeriods - 1
    /\ wraps' = [left |-> wraps.left - 1, near |-> LastPeriods]
    /\ UNCHANGED <<adr, own, radio, loss, clocks, calm, history>>

(* Weeks later, and no fallback in the last minute. *)
RevivedPasses ==
    /\ history.fallback = Penalty
    /\ adr' = LET Passed(d) == IF d = Long THEN 0 ELSE d
              IN  [adr EXCEPT !.cooldown_until = Passed(@), !.penalized_until = Passed(@)]
    /\ adr' # adr
    /\ UNCHANGED <<own, radio, loss, clocks, calm, wraps, history>>
-----------------------------------------------------------------------------
(* Decide: what it does to the controller's members, and its action.       *)
Decision(a, kind, mode) == [adr |-> a, kind |-> kind, mode |-> mode]

Forget(a) == [a EXCEPT !.want = None, !.stable = 0]

Commit(a, mode) == Decision([Forget(a) EXCEPT !.age = 0], "request", mode)

OnFallback(a, failed) ==
    [Forget(a) EXCEPT !.cooldown_until = Until(Cooldown),
                      !.penalized = failed,
                      !.penalized_until = Until(Penalty)]

(* A penalty without an end. *)
OffLimits_ForEver(a, mode) == a.penalized # None /\ Rank(mode) >= Rank(a.penalized)

OffLimits(a, mode) == /\ a.penalized # None /\ Ahead(a.penalized_until)
                      /\ Rank(mode) >= Rank(a.penalized)

(* The GFSK rung is taken after the guard has been consulted. *)
Pick_GuardFirst(a, cur, retx) ==
    LET bySnr == PickBySnr(radio.reading.snr)
        guarded == IF OffLimits(a, bySnr) THEN MoreRobust(a.penalized) ELSE bySnr
    IN  IF Fsk # {} /\ cur = FastestAutoLora /\ radio.reading.strong /\ retx <= UpMaxRetx
        THEN Max(Fsk) ELSE guarded

Pick(a, cur, retx) ==
    LET bySnr == PickBySnr(radio.reading.snr)
        pick == IF Fsk # {} /\ cur = FastestAutoLora
                     /\ radio.reading.strong /\ retx <= UpMaxRetx
                THEN Max(Fsk) ELSE bySnr
    IN  IF OffLimits(a, pick) THEN MoreRobust(a.penalized) ELSE pick

(* The target of an up-step has been wanted once more. *)
Wanted(a, mode) == [a EXCEPT !.want = mode,
                             !.stable = IF mode = a.want THEN @ + 1 ELSE 1]

(* Loss does not break the row of clean evaluations. *)
Evaluate_KeepsRow(a, cur, retx) ==
    LET none(b) == Decision(b, "none", None)
        pick == Pick(a, cur, retx)
        up == Wanted(a, pick)
    IN  CASE retx >= DownRetx ->
                 IF MoreRobust(cur) = cur THEN none(a) ELSE Commit(a, MoreRobust(cur))
          [] retx < DownRetx /\ (cur \in Fsk \/ (Faster(pick, cur) /\ retx > UpMaxRetx)) -> none(a)
          [] OTHER ->
                 CASE pick = cur -> none(Forget(a))
                   [] Faster(pick, cur) ->
                          IF up.stable >= UpStable THEN Commit(a, pick) ELSE none(up)
                   [] OTHER -> Commit(a, pick)

(* The up-step comes an evaluation late. *)
Evaluate_OneLate(a, cur, retx) ==
    LET up == Wanted(a, Pick(a, cur, retx))
    IN  IF retx < DownRetx /\ cur \notin Fsk /\ Faster(up.want, cur) /\ up.stable > UpStable
        THEN Commit(a, up.want) ELSE Decision(up, "none", None)

Evaluate(a, cur, retx) ==
    LET none(b) == Decision(b, "none", None)
        pick == Pick(a, cur, retx)
        up == Wanted(a, pick)
    IN  CASE retx >= DownRetx ->
                 IF MoreRobust(cur) = cur THEN none(a) ELSE Commit(a, MoreRobust(cur))
          [] retx < DownRetx /\ cur \in Fsk -> none(a)
          [] OTHER ->
                 CASE pick = cur -> none(Forget(a))
                   [] Faster(pick, cur) /\ retx > UpMaxRetx -> none(Forget(a))
                   [] Faster(pick, cur) /\ retx <= UpMaxRetx ->
                          IF up.stable >= UpStable THEN Commit(a, pick) ELSE none(up)
                   [] OTHER -> Commit(a, pick)

Evaluates(a, busy) == ~busy /\ ~Ahead(a.cooldown_until) /\ radio.have

(* A cooldown holds back the abort as well. *)
Decide_CooldownFirst(a, busy, cur, retx) ==
    CASE busy /\ ~Ahead(a.cooldown_until) /\ a.age > SwitchTimeout ->
             Decision([Forget(a) EXCEPT !.cooldown_until = Until(Cooldown)], "abort", None)
      [] Evaluates(a, busy) -> Evaluate(a, cur, retx)
      [] OTHER -> Decision(a, "none", None)

(* A call that comes period_ms after the last one that did. *)
Decide(a, busy, cur, retx) ==
    CASE busy /\ a.age > SwitchTimeout ->
             Decision([Forget(a) EXCEPT !.cooldown_until = Until(Cooldown)], "abort", None)
      [] Evaluates(a, busy) -> Evaluate(a, cur, retx)
      [] OTHER -> Decision(a, "none", None)

CarryOut(d, ms) == CASE d.kind = "request" -> Request(ms, d.mode)
                     [] d.kind = "abort" -> Abort(ms)
                     [] OTHER -> ms
-----------------------------------------------------------------------------
(* A period passes and the loop comes round: Poll and ServiceModeSwitch,   *)
(* MaybeRendezvous, DriveAdr.  Its other passes of the same period find no *)
(* clock run out.  On a calm channel there was a turn in every period.     *)
Older(age, most) == IF age < most THEN age + 1 ELSE age

Clocks == [heard |-> Older(clocks.heard, Rendezvous),
           rendezvous |-> Older(clocks.rendezvous, Rendezvous),
           probation |-> IF own.probation THEN Older(clocks.probation, Probation) ELSE 0]

(* Applying a mode leaves the counters alone; ApplyLinkConfig clears them. *)
Applied(l, before, after) == [l EXCEPT !.fresh = @ /\ before.current = after.current]

Clean(before, retx) == IF retx > UpMaxRetx THEN 0 ELSE Older(before, UpStable)

(* What the first two leave to DriveAdr. *)
Recovered ==
    LET c == Clocks
        expired == own.probation /\ c.probation = Probation
        ms == IF expired THEN Service(PollExpired(own)) ELSE own
        due == c.heard = Rendezvous /\ c.rendezvous = Rendezvous
        falls == due /\ ms.current # RendezvousMode
        older == [adr EXCEPT !.age = Older(@, SwitchTimeout + 1),
                             !.cooldown_until = Nearer(@), !.penalized_until = Nearer(@)]
    IN  [own |-> IF falls THEN Begin(RendezvousMode) ELSE ms,
         adr |-> IF falls THEN OnFallback(older, ms.current) ELSE older,
         loss |-> IF falls THEN [retx |-> 0, fresh |-> FALSE] ELSE Applied(loss, own, ms),
         clocks |-> [c EXCEPT !.rendezvous = IF due THEN 0 ELSE @,
                              !.probation = IF expired THEN 0 ELSE @],
         falls |-> falls]

History(r, d) ==
    LET clean == IF r.falls THEN 0 ELSE history.clean
    IN  [fallback |-> IF r.falls THEN 0 ELSE Older(history.fallback, Penalty),
         asked |-> IF own.target = None \/ d.kind = "request" THEN 0
                   ELSE Older(history.asked, SwitchTimeout + 2),
         clean |-> CASE d.kind # "none" -> 0
                     [] d.kind = "none" /\ Evaluates(r.adr, Busy(r.own)) ->
                            Clean(clean, r.loss.retx)
                     [] OTHER -> clean]

LoopTop ==
    /\ calm => clocks.heard = 0
    /\ \E r \in {Recovered} :
       \E d \in {Decide(r.adr, Busy(r.own), r.own.current, r.loss.retx)} :
          /\ own' = CarryOut(d, r.own)
          /\ adr' = d.adr
          /\ loss' = r.loss
          /\ clocks' = r.clocks
          /\ history' = History(r, d)
          /\ wraps' = [wraps EXCEPT !.near = ToWrap]
    /\ UNCHANGED <<radio, calm>>

(* The retx ratio after a turn; on a calm channel a bad one falls. *)
NextLoss ==
    \/ (calm => loss.retx <= UpMaxRetx) /\ loss' = loss
    \/ \E r \in Retxs :
          /\ calm => r < loss.retx \/ r = 0
          /\ loss' = [retx |-> r, fresh |-> TRUE]

(* A turn in which the peer was heard: the readings are of its frames. *)
Heard(ctrl) ==
    LET ms == Service(AfterRecv(own, ctrl, TRUE))
    IN  /\ own' = ms
        /\ \E reading \in IF calm THEN {BestReading} ELSE Readings :
              radio' = [have |-> TRUE, reading |-> reading]
        /\ IF ms.current = own.current THEN NextLoss ELSE loss' = Applied(loss, own, ms)
        /\ clocks' = [clocks EXCEPT !.heard = 0,
                                    !.probation = IF ms.probation THEN 0 ELSE @]
        /\ UNCHANGED <<adr, calm, wraps, history>>

Answered == \/ own.target # None /\ Heard(CtrlEncode(own.target, TRUE))
            \/ own.target = None /\ Heard(0)

(* The peer's frame does not carry the ACK: the request was lost. *)
Unanswered == own.target # None /\ ~calm /\ Heard(0)

Calms == /\ ~calm /\ calm' = TRUE
         /\ UNCHANGED <<adr, own, radio, loss, clocks, wraps, history>>

RateTurn == Answered \/ Unanswered
RateNext == LoopTop \/ RateTurn \/ Calms \/ WrapNears \/ RevivedPasses

(* The loop runs, turns are made and time passes; the channel need not     *)
(* ever be calm.                                                           *)
RateFairness == WF_rateVars(LoopTop \/ RateTurn) /\ WF_rateVars(RevivedPasses)

RateSpec == RateInit /\ [][RateNext]_rateVars /\ RateFairness
-----------------------------------------------------------------------------
(* Types: what Decide asks for is a mode of the table.                     *)
RateTypeOK ==
    /\ own \in Switches
    /\ adr \in [age : 0 .. SwitchTimeout + 1, cooldown_until : Ticks,
               want : Modes \union {None}, stable : 0 .. UpStable - 1,
               penalized : Modes \union {None}, penalized_until : Ticks]
    /\ loss \in [retx : Retxs, fresh : BOOLEAN] /\ calm \in BOOLEAN
    /\ wraps \in [left : 0 .. MaxWraps, near : 0 .. LastPeriods]
    /\ history \in [fallback : 0 .. Penalty, asked : 0 .. SwitchTimeout + 2,
                   clean : 0 .. UpStable]

(* Decide's switch_timeout_ms: a switch that is not acknowledged is given  *)
(* up within a period of its time-out, also when millis() wraps in between *)
(* and revives a cooldown.                                                 *)
SwitchEnds == own.target # None => history.asked <= SwitchTimeout + 1

Requests == own.target = None /\ own'.target # None
Climbs == Requests /\ Faster(own'.target, own'.current)

(* adr.h, up_stable: the link climbs after that many evaluations in a row  *)
(* without loss; from the most robust mode loss does not break the row.    *)
ClimbsWhenClean ==
    [][Climbs /\ own'.current # LastLora => history.clean >= UpStable - 1]_rateVars

(* A request has been out no longer than the controller counts.            *)
RequestIsTimed ==
    own.target # None => adr.age <= SwitchTimeout /\ history.asked <= adr.age

(* No up-step is on its way while a switch is, or in a mode without one.   *)
RowIsClean ==
    /\ Busy(own) \/ own.current \in Fsk => adr.stable = 0
    /\ own.current # LastLora => adr.stable <= history.clean

(* Until the penalty is over its deadline lies ahead; or it overflowed and *)
(* is taken up by the wrap, which comes before it has run out.             *)
PenaltyHolds ==
    history.fallback < Penalty =>
        /\ adr.penalized # None
        /\ \/ /\ Ahead(adr.penalized_until)
              /\ adr.penalized_until >= Penalty - history.fallback
           \/ /\ Void(adr.penalized_until)
              /\ adr.penalized_until - Long >= Penalty - history.fallback
              /\ wraps.near \in 1 .. adr.penalized_until - Long

RateInv == RateTypeOK /\ RequestIsTimed /\ RowIsClean /\ PenaltyHolds

(* adr.h, OnFallback: "won't re-climb into it (or any faster mode) until   *)
(* fallback_penalty_ms elapses", on every way Decide has to a faster mode; *)
(* and no way up but for a clean row.  A penalty that overflowed is taken  *)
(* up when millis() has wrapped.                                           *)
NoClimbBack ==
    /\ [][Climbs /\ history'.fallback < Penalty /\ ~Void(adr'.penalized_until)
            => Rank(own'.target) < Rank(adr'.penalized)]_rateVars
    /\ ClimbsWhenClean
(* The same, with no exception. *)
NeverClimbsBack ==
    [][Climbs /\ history'.fallback < Penalty
         => Rank(own'.target) < Rank(adr'.penalized)]_rateVars

(* fw_device.cpp: "counters reset on each switch, so the retx ratio        *)
(* reflects the current mode".  A step for loss is about frames sent in    *)
(* the mode it leaves.                                                     *)
LossIsOfThisMode == [][Requests /\ loss'.retx >= DownRetx => loss'.fresh]_rateVars

(* adr.h, fallback_penalty_ms: the failed mode is off-limits "this long",  *)
(* and no longer.                                                          *)
PenaltyEnds == Ahead(adr.penalized_until) => history.fallback < Penalty

(* Once the channel is calm the link comes to its fastest mode, through    *)
(* cooldowns, penalties and the wrap of millis(), and stays.               *)
TopOfLadder == IF Fsk # {} THEN Max(Fsk) ELSE FastestAutoLora
ReachesTop == <>[](calm => own.current = TopOfLadder)
=============================================================================
