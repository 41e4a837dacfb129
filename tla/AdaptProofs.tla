----------------------------- MODULE AdaptProofs -----------------------------
(***************************************************************************)
(* For every ladder of modes, every set of limits, times and bounds: the   *)
(* powers stay within half a step of their range; a board reboots at most  *)
(* once in a silence, after the gentler steps; a switch is given up in     *)
(* time, and the link climbs only by the rules, through the wrap of        *)
(* millis().  That all of it comes to rest is TLC's to show.               *)
(***************************************************************************)
EXTENDS MCAdapt, FiniteSetTheorems, TLAPS
-----------------------------------------------------------------------------
(* The ladder.                                                             *)

USE ModesAssumption, LadderAssumption, BootAssumption, TimerAssumption

(* The LoRa modes are 0, the fastest, to the most robust.                  *)
LEMMA LadderEnds ==
  /\ LoRa \subseteq Modes /\ LoRa = 0 .. LastLora
  /\ LastLora \in 0 .. 6 /\ FastestAutoLora = 0
  <1>1. LoRa \subseteq 0 .. 6
    BY DEF LoRa
  <1>2. Cardinality(LoRa) \in Nat
    <2>1. IsFiniteSet(0 .. 6)
      <3>1. 0 \in Int /\ 6 \in Int
        OBVIOUS
      <3> QED
        BY <3>1, FS_Interval, Zenon
    <2> QED
      BY <1>1, <2>1, FS_Subset, FS_CardinalityType
  <1> DEFINE last == Cardinality(LoRa) - 1
  <1>3. LoRa = 0 .. last /\ last \in Nat
    BY <1>2
  <1>4. last \in 0 .. 6
    <2>1. last \in 0 .. last
      BY <1>3
    <2> QED
      BY <1>1, <1>3, <2>1
  <1>5. Max(LoRa) = last
    <2>1. last \in LoRa /\ \A y \in LoRa : last >= y
      BY <1>3
    <2>2. \A x \in LoRa : (\A y \in LoRa : x >= y) => x = last
      BY <1>3, <2>1
    <2> QED
      BY <2>1, <2>2 DEF Max
  <1>6. Min(LoRa) = 0
    <2>1. 0 \in LoRa /\ \A y \in LoRa : 0 <= y
      BY <1>3
    <2>2. \A x \in LoRa : (\A y \in LoRa : x <= y) => x = 0
      BY <1>3, <2>1
    <2> QED
      BY <2>1, <2>2 DEF Min
  <1> QED
    BY <1>3, <1>4, <1>5, <1>6 DEF LastLora, FastestAutoLora, LoRa

(* There is a smallest among some of the modes.                            *)
LEMMA SmallestMode ==
  ASSUME NEW S \in SUBSET (0 .. 6), S # {}
  PROVE  Min(S) \in S
  <1>1. \E x \in S : \A y \in S : x <= y
    <2>1. \A y \in S : y \in 0 .. 6
      OBVIOUS
    <2>2. PICK z : z \in S
      OBVIOUS
    <2>3. CASE 0 \in S
      BY <2>1, <2>3
    <2>4. CASE 0 \notin S /\ 1 \in S
      BY <2>1, <2>4
    <2>5. CASE 0 \notin S /\ 1 \notin S /\ 2 \in S
      BY <2>1, <2>5, SMTT(20)
    <2>6. CASE 0 \notin S /\ 1 \notin S /\ 2 \notin S /\ 3 \in S
      BY ONLY <2>1, <2>6
    <2>7. CASE 0 \notin S /\ 1 \notin S /\ 2 \notin S /\ 3 \notin S /\ 4 \in S
      BY <2>1, <2>7, SMTT(20)
    <2>8. CASE 0 \notin S /\ 1 \notin S /\ 2 \notin S /\ 3 \notin S /\ 4 \notin S
      <3>1. \A y \in S : y \in {5, 6}
        BY <2>1, <2>8
      <3>2. CASE 5 \in S
        BY <3>1, <3>2
      <3>3. CASE 5 \notin S
        <4>1. \A y \in S : y = 6
          BY <3>1, <3>3
        <4>2. z = 6
          BY <2>2, <4>1
        <4> QED
          BY <2>2, <4>1, <4>2
      <3> QED
        BY <3>2, <3>3
    <2> QED
      BY <2>3, <2>4, <2>5, <2>6, <2>7, <2>8
  <1> QED
    BY <1>1 DEF Min

(* The SNR picks one of the LoRa modes.                                    *)
LEMMA PickIsLora ==
  ASSUME NEW snr
  PROVE  PickBySnr(snr) \in LoRa
  <1> DEFINE clears == {m \in LoRa : snr >= Floor[m] + Margin}
  <1>1. clears \in SUBSET (0 .. 6)
    BY LadderEnds
  <1>2. LastLora \in LoRa
    BY LadderEnds, SMTT(20)
  <1>3. clears # {} => Min(clears) \in LoRa
    BY <1>1, SmallestMode
  <1> QED
    BY <1>2, <1>3 DEF PickBySnr

(* The GFSK mode, if there is one.                                         *)
LEMMA GfskMode ==
  Fsk # {} => Max(Fsk) \in Fsk
  <1> SUFFICES ASSUME Fsk # {} PROVE Max(Fsk) \in Fsk
    OBVIOUS
  <1>1. PICK m : m \in Fsk
    OBVIOUS
  <1>2. IsFiniteSet(Fsk)
    <2>1. IsFiniteSet(0 .. 6)
      <3>1. 0 \in Int /\ 6 \in Int
        OBVIOUS
      <3> QED
        BY <3>1, FS_Interval, Zenon
    <2>2. Fsk \subseteq 0 .. 6
      OBVIOUS
    <2> QED
      BY <2>1, <2>2, FS_Subset
  <1>3. \A k \in Fsk : k = m
    <2> SUFFICES ASSUME NEW k \in Fsk, k # m PROVE FALSE
      OBVIOUS
    <2>1. IsFiniteSet({m}) /\ Cardinality({m}) = 1
      BY FS_Singleton
    <2>2. Cardinality({m} \cup {k}) = 2
      <3>1. k \notin {m}
        OBVIOUS
      <3>2. Cardinality({m} \cup {k}) = Cardinality({m}) + 1
        BY <2>1, <3>1, FS_AddElement
      <3>3. 1 + 1 = 2
        OBVIOUS
      <3> QED
        BY ONLY <2>1, <3>2, <3>3, Zenon
    <2>3. {m} \cup {k} \subseteq Fsk
      BY <1>1
    <2>4. Cardinality(Fsk) \in Nat /\ Cardinality({m} \cup {k}) <= Cardinality(Fsk)
      BY <1>2, <2>3, FS_Subset, FS_CardinalityType
    <2>5. Cardinality(Fsk) <= 1 /\ Cardinality(Fsk) \in Nat
      BY <2>4
    <2> QED
      BY ONLY <2>2, <2>4, <2>5
  <1>4. m \in Int
    BY <1>1
  <1> QED
    BY <1>1, <1>3, <1>4 DEF Max

(* What MoreRobust returns is a mode, a rung lower, or the same at the      *)
(* bottom; and the ranks order the modes.                                  *)
LEMMA RanksOfModes ==
  ASSUME NEW m \in Modes
  PROVE  /\ Rank(m) \in Int /\ Rank(LastLora) <= Rank(m)
         /\ MoreRobust(m) \in Modes
         /\ m = LastLora \/ Rank(MoreRobust(m)) < Rank(m)
         /\ MoreRobust(m) = m <=> m = LastLora
         /\ m \in Fsk => m # LastLora
  <1>1. m \in 0 .. 6 /\ m # None
    BY DEF None
  <1>2. CASE m \in Fsk
    <2>1. m \notin LoRa
      BY <1>2 DEF LoRa
    <2>2. FastestAutoLora \in LoRa /\ LastLora \in LoRa /\ FastestAutoLora # None /\ LastLora # None
      BY LadderEnds DEF None
    <2>3. FastestAutoLora \notin Fsk /\ LastLora \notin Fsk
      BY <2>2 DEF LoRa
    <2>4. Rank(m) = 1000
      BY <1>1, <1>2 DEF Rank
    <2>7. MoreRobust(m) = FastestAutoLora
      <3>1. ~(m < LastLora)
        BY <1>1, <2>1, LadderEnds
      <3> QED
        BY <1>2, <3>1 DEF MoreRobust
    <2>5. Rank(LastLora) = -LastLora /\ Rank(FastestAutoLora) = -FastestAutoLora
      BY <2>2, <2>3 DEF Rank
    <2>6. m # LastLora /\ m # FastestAutoLora
      BY <2>1, <2>2
    <2> QED
      BY <2>2, <2>4, <2>5, <2>6, <2>7, LadderEnds
  <1>3. CASE m \notin Fsk
    <2>1. m \in LoRa /\ m \in 0 .. LastLora
      BY <1>3, LadderEnds DEF LoRa
    <2>2. LastLora \in LoRa /\ LastLora # None
      BY LadderEnds DEF None
    <2>3. LastLora \notin Fsk
      BY <2>2 DEF LoRa
    <2>4. m < LastLora => m + 1 \in LoRa /\ m + 1 # None
      BY <2>1, LadderEnds DEF None
    <2>5. m < LastLora => m + 1 \notin Fsk
      BY <2>4 DEF LoRa
    <2>6. Rank(m) = -m /\ Rank(LastLora) = -LastLora
      BY <1>1, <1>3, <2>2, <2>3 DEF Rank
    <2>7. CASE m < LastLora
      <3>1. Rank(m + 1) = -(m + 1) /\ MoreRobust(m) = m + 1
        BY <1>3, <2>4, <2>5, <2>7 DEF Rank, MoreRobust
      <3> QED
        BY <1>3, <2>1, <2>4, <2>6, <2>7, <3>1, LadderEnds
    <2>8. CASE ~(m < LastLora)
      <3>1. m = LastLora
        BY <2>1, <2>8, LadderEnds
      <3>2. MoreRobust(m) = m
        BY <1>3, <2>8 DEF MoreRobust
      <3> QED
        BY <1>3, <2>6, <3>1, <3>2, LadderEnds
    <2> QED
      BY <2>7, <2>8
  <1> QED
    BY <1>2, <1>3

HIDE ModesAssumption
HIDE LadderAssumption
HIDE BootAssumption
HIDE TimerAssumption

-----------------------------------------------------------------------------
(* The powers.                                                             *)

USE PowerAssumption, LawAssumption

(* AutoPowerStep overshoots a limit by half a step at the most.            *)
LEMMA StepIsSmall ==
  ASSUME NEW cur \in MinDbm - 1 .. MaxDbm + 1, NEW peerSnr, NEW floor, NEW silent
  PROVE  AutoPowerStep(cur, peerSnr, floor, silent) \in MinDbm - 1 .. MaxDbm + 1
  <1> DEFINE step == AutoPowerStep(cur, peerSnr, floor, silent)
             high == peerSnr - floor > MarginHi
             low == peerSnr - floor < MarginLo
  <1>1. MinDbm \in Int /\ MaxDbm \in Int /\ MinDbm <= MaxDbm
    <2>1. PICK dbm \in SavedDbm : TRUE
      OBVIOUS
    <2> QED
      BY <2>1
  <1>2. CASE silent
    <2>1. step = IF cur + 2 > MaxDbm THEN MaxDbm ELSE cur + 2
      BY <1>2 DEF AutoPowerStep, Step
    <2> QED
      BY <1>1, <2>1
  <1>3. CASE ~silent /\ high /\ cur > MinDbm
    <2>1. step = cur - 2 \/ (cur < MaxDbm /\ step = cur + 2)
      BY <1>3 DEF AutoPowerStep, Step
    <2> QED
      BY <1>1, <1>3, <2>1
  <1>4. CASE ~silent /\ ~(high /\ cur > MinDbm) /\ low /\ cur < MaxDbm
    <2>1. step = cur + 2
      BY <1>4 DEF AutoPowerStep, Step
    <2> QED
      BY <1>1, <1>4, <2>1
  <1>5. CASE ~silent /\ ~(high /\ cur > MinDbm) /\ ~(low /\ cur < MaxDbm)
    <2>1. step = cur
      BY <1>5 DEF AutoPowerStep
    <2> QED
      BY <2>1
  <1> QED
    BY <1>2, <1>3, <1>4, <1>5

(* BudgetInit: a board starts with a power it may have been saved with.    *)
LEMMA PowersInit ==
  BudgetInit => PowerTypeOK
  <1> SUFFICES ASSUME BudgetInit PROVE PowerTypeOK
    OBVIOUS
  <1>1. PICK dbm \in [Ends -> SavedDbm] : tx = dbm /\ amp = dbm
    BY DEF BudgetInit
  <1>2. \A n \in Ends : dbm[n] \in MinDbm .. MaxDbm
    OBVIOUS
  <1>3. tx \in [Ends -> MinDbm - 1 .. MaxDbm + 1] /\ amp \in [Ends -> MinDbm .. MaxDbm]
    BY <1>1, <1>2
  <1>4. phy \in LoRa /\ silence \in [Ends -> 0 .. ApSilent + 1]
    BY DEF BudgetInit
  <1> QED
    BY <1>3, <1>4 DEF PowerTypeOK

(* No step takes a power, or the age of a silence, out of its range.       *)
LEMMA PowersStep ==
  PowerTypeOK /\ [BudgetNext]_budgetVars => PowerTypeOK'
  <1> SUFFICES ASSUME PowerTypeOK, [BudgetNext]_budgetVars
               PROVE  PowerTypeOK'
    OBVIOUS
  <1> USE DEF PowerTypeOK
  <1>1. ASSUME NEW a \in BOOLEAN, NEW r \in BOOLEAN, Turn(a, r)
        PROVE  PowerTypeOK'
    <2>1. UNCHANGED <<tx, amp, phy>>
      BY <1>1 DEF Turn
    <2> DEFINE got == {n \in Ends : IF n = "responder" THEN a ELSE r}
    <2>2. silence' = [n \in Ends |-> IF n \in got THEN 0 ELSE silence[n]]
      BY <1>1 DEF Turn
    <2> HIDE DEF got
    <2>3. silence' \in [Ends -> 0 .. ApSilent + 1]
      BY <2>2
    <2> QED
      BY <2>1, <2>3
  <1>2. CASE MaybeStatus
    <2>1. tx' = Adjusted /\ phy' = phy
      BY <1>2 DEF MaybeStatus
    <2>2. \A n \in Ends : Adjusted[n] \in MinDbm - 1 .. MaxDbm + 1
      BY StepIsSmall DEF Adjusted
    <2>3. tx' \in [Ends -> MinDbm - 1 .. MaxDbm + 1]
      BY <2>1, <2>2 DEF Adjusted
    <2>4. amp' \in [Ends -> MinDbm .. MaxDbm]
      BY <1>2 DEF MaybeStatus
    <2>5. silence' \in [Ends -> 0 .. ApSilent + 1]
      BY <1>2 DEF MaybeStatus, Silent
    <2> QED
      BY <2>1, <2>3, <2>4, <2>5
  <1>3. CASE SwitchMode
    <2>1. PickBySnr(heard) \in LoRa
      BY PickIsLora
    <2>2. UNCHANGED <<tx, amp>> /\ phy' \in {phy, PickBySnr(heard)}
      BY <1>3 DEF SwitchMode
    <2>3. silence' = silence \/ silence' = [n \in Ends |-> ApSilent + 1]
      BY <1>3 DEF SwitchMode
    <2>4. silence' \in [Ends -> 0 .. ApSilent + 1]
      BY <2>3
    <2> QED
      BY <2>1, <2>2, <2>4
  <1>4. ASSUME NEW n \in Ends, NewSession(n)
        PROVE  PowerTypeOK'
    BY <1>4 DEF NewSession
  <1>5. ASSUME NEW n \in Ends, PowerUp(n)
        PROVE  PowerTypeOK'
    <2>1. PICK dbm \in SavedDbm : SetTxPower(n, dbm)
      BY <1>5 DEF PowerUp
    <2>2. dbm \in MinDbm .. MaxDbm /\ dbm \in MinDbm - 1 .. MaxDbm + 1
      OBVIOUS
    <2>3. tx' = [tx EXCEPT ![n] = dbm] /\ amp' = [amp EXCEPT ![n] = dbm]
      BY <2>1, <2>2 DEF SetTxPower
    <2>4. phy' = phy /\ silence' = [silence EXCEPT ![n] = 0]
      BY <1>5 DEF PowerUp
    <2>5. tx' \in [Ends -> MinDbm - 1 .. MaxDbm + 1] /\ amp' \in [Ends -> MinDbm .. MaxDbm]
      BY <2>2, <2>3
    <2>6. silence' \in [Ends -> 0 .. ApSilent + 1]
      <3>1. 0 \in 0 .. ApSilent + 1
        OBVIOUS
      <3> QED
        BY <2>4, <3>1
    <2> QED
      BY <2>4, <2>5, <2>6
  <1>6. CASE Moves
    BY <1>6 DEF Moves, ends
  <1>7. CASE UNCHANGED budgetVars
    BY <1>7 DEF budgetVars, ends
  <1> QED
    BY <1>1, <1>2, <1>3, <1>4, <1>5, <1>6, <1>7 DEF BudgetNext

(* autopower.h: on whatever reports, a power is never more than a step's    *)
(* odd half outside its range, and the chip is always at a power it has.   *)
THEOREM PowersInRange == BudgetSpec => []PowerTypeOK
  BY PowersInit, PowersStep, PTL DEF BudgetSpec

HIDE PowerAssumption
HIDE LawAssumption

-----------------------------------------------------------------------------
(* The recovery.                                                           *)

USE ModesAssumption, LadderAssumption, BoardsAssumption, TimesAssumption

(* Of as many modes as there are, one waits the longest.                   *)
LEMMA OneMoreMode ==
  ASSUME NEW f \in [Modes -> Nat \ {0}], NEW k \in Nat,
         \/ \A m \in Modes : ~(m < k)
         \/ \E m \in Modes : \A n \in Modes : n < k => f[n] <= f[m]
  PROVE  \/ \A m \in Modes : ~(m < k + 1)
         \/ \E m \in Modes : \A n \in Modes : n < k + 1 => f[n] <= f[m]
  <1>1. \A n \in Modes : n \in Int /\ f[n] \in Int /\ (n < k + 1 <=> n < k \/ n = k)
    OBVIOUS
  <1>2. CASE k \notin Modes
    BY <1>1, <1>2
  <1>3. CASE k \in Modes /\ \A m \in Modes : ~(m < k)
    <2>1. \A n \in Modes : n < k + 1 => f[n] <= f[k]
      BY <1>1, <1>3
    <2> QED
      BY <1>3, <2>1
  <1>4. CASE k \in Modes /\ \E m \in Modes : \A n \in Modes : n < k => f[n] <= f[m]
    <2>1. PICK m \in Modes : \A n \in Modes : n < k => f[n] <= f[m]
      BY <1>4
    <2>2. CASE f[k] <= f[m]
      <3>1. \A n \in Modes : n < k + 1 => f[n] <= f[m]
        BY <1>1, <2>1, <2>2
      <3> QED
        BY <3>1
    <2>3. CASE ~(f[k] <= f[m])
      <3>1. \A n \in Modes : n < k + 1 => f[n] <= f[k]
        <4> SUFFICES ASSUME NEW n \in Modes, n < k + 1 PROVE f[n] <= f[k]
          OBVIOUS
        <4>1. n = k \/ f[n] <= f[m]
          BY <1>1, <2>1
        <4>2. f[n] \in Int /\ f[m] \in Int /\ f[k] \in Int
          BY <1>1, <1>4
        <4>3. CASE n = k
          BY ONLY <4>2, <4>3
        <4>4. CASE f[n] <= f[m]
          BY ONLY <2>3, <4>2, <4>4
        <4> QED
          BY <4>1, <4>3, <4>4
      <3> QED
        BY <1>4, <3>1
    <2> QED
      BY <2>2, <2>3
  <1> QED
    BY <1>2, <1>3, <1>4

(* RecoveryMs over the table has a largest value.                          *)
LEMMA LongestWait ==
  ASSUME NEW f \in [Modes -> Nat \ {0}]
  PROVE  LET most == Max({f[m] : m \in Modes})
         IN  most \in Nat /\ \A m \in Modes : f[m] <= most
  <1> DEFINE Upto(k) == \/ \A m \in Modes : ~(m < k)
                        \/ \E m \in Modes : \A n \in Modes : n < k => f[n] <= f[m]
  <1>1. Upto(0)
    OBVIOUS
  <1>2. \A k \in Nat : Upto(k) => Upto(k + 1)
    BY OneMoreMode
  <1> HIDE DEF Upto
  <1>3. Upto(0 + 1)
    BY <1>1, <1>2
  <1>4. Upto(1 + 1)
    BY <1>2, <1>3
  <1>5. Upto(2 + 1)
    BY <1>2, <1>4
  <1>6. Upto(3 + 1)
    BY <1>2, <1>5
  <1>7. Upto(4 + 1)
    BY <1>2, <1>6
  <1>8. Upto(5 + 1)
    BY <1>2, <1>7
  <1>9. Upto(7)
    BY <1>2, <1>8
  <1>10. PICK m \in Modes : \A n \in Modes : f[n] <= f[m]
    <2>1. \A n \in Modes : n < 7
      OBVIOUS
    <2>2. SavedMode \in Modes
      BY DEF LoRa
    <2> QED
      BY <1>9, <2>1, <2>2 DEF Upto
  <1> DEFINE S == {f[n] : n \in Modes}
  <1>11. f[m] \in S /\ \A y \in S : f[m] >= y
    BY <1>10
  <1>12. Max(S) \in S /\ \A y \in S : Max(S) >= y
    BY <1>11 DEF Max
  <1>13. S \subseteq Nat
    OBVIOUS
  <1> QED
    BY <1>12, <1>13

(* The times are ordered as TimesAssumption says, and bounded by the       *)
(* largest of each.                                                        *)
LEMMA LongestWaits ==
  /\ MostStuck \in Nat /\ MostApart \in Nat /\ MostLost \in Nat
  /\ \A m \in Modes : /\ Stuck[m] \in Nat \ {0} /\ Apart[m] \in Nat \ {0} /\ Lost[m] \in Nat \ {0}
                      /\ Stuck[m] <= MostStuck /\ Apart[m] <= MostApart
                      /\ Stuck[m] <= Apart[m] /\ Apart[m] < Lost[m]
  <1>1. Stuck \in [Modes -> Nat \ {0}] /\ Apart \in [Modes -> Nat \ {0}] /\ Lost \in [Modes -> Nat \ {0}]
    OBVIOUS
  <1>2. MostStuck \in Nat /\ \A m \in Modes : Stuck[m] <= MostStuck
    BY <1>1, LongestWait DEF MostStuck
  <1>3. MostApart \in Nat /\ \A m \in Modes : Apart[m] <= MostApart
    BY <1>1, LongestWait DEF MostApart
  <1>4. MostLost \in Nat
    BY <1>1, LongestWait DEF MostLost
  <1> QED
    BY <1>1, <1>2, <1>3, <1>4

Modal == [at : Modes, linked : BOOLEAN, unheard : 0 .. MostLost, reinit : 0 .. MostStuck,
          fallback : 0 .. MostApart, wedge : {"no", "soft", "hard"}]
Trials == [steps : SUBSET Steps, reboots : 0 .. 3, before : SUBSET Steps]

(* The claims of StepsAreDue and NoBootLoop of one board.                  *)
Due(r, t) ==
  /\ "reinit" \in t.steps \/ r.reinit = MostStuck \/ r.unheard <= r.reinit
  /\ "rendezvous" \in t.steps \/ r.fallback = MostApart \/ r.unheard <= r.fallback
  /\ t.reboots > 0 => ~r.linked

Last(t, adaptive) ==
  /\ t.reboots <= 1
  /\ t.reboots > 0 => "reinit" \in t.before /\ (adaptive => "rendezvous" \in t.before)

(* RecoveryInv speaks of each board by itself.                             *)
LEMMA BoardByBoard ==
  RecoveryInv <=> /\ board \in [Boards -> Modal] /\ tried \in [Boards -> Trials]
                  /\ adapts \in [Boards -> BOOLEAN] /\ upsets \in 0 .. MaxUpsets
                  /\ \A b \in Boards : Due(board[b], tried[b]) /\ Last(tried[b], adapts[b])
  BY DEF RecoveryInv, RecoveryTypeOK, StepsAreDue, NoBootLoop, RebootIsLast, Modal, Trials, Due, Last

(* A board that has just booted.                                           *)
LEMMA BootIsFresh ==
  /\ Boot \in Modal /\ Untried \in Trials
  /\ \A t \in Trials : Due(Boot, t)
  /\ \A adaptive : Last(Untried, adaptive)
  <1>1. Boot \in Modal
    <2>1. SavedMode \in Modes
      BY DEF LoRa
    <2>2. 0 \in 0 .. MostLost /\ 0 \in 0 .. MostStuck /\ 0 \in 0 .. MostApart
      BY LongestWaits
    <2> QED
      BY <2>1, <2>2 DEF Boot, Modal
  <1>2. Untried \in Trials
    BY DEF Untried, Trials
  <1>3. \A t \in Trials : Due(Boot, t)
    BY DEF Boot, Due
  <1>4. \A adaptive : Last(Untried, adaptive)
    BY DEF Untried, Last
  <1> QED
    BY <1>1, <1>2, <1>3, <1>4

(* What a tick makes of one board.                                         *)
LEMMA PassKeeps ==
  ASSUME NEW b \in Boards, NEW r \in Modal, tried[b] \in Trials, adapts[b] \in BOOLEAN,
         Due(r, tried[b]), Last(tried[b], adapts[b])
  PROVE  LET aged == Aged(r)
             fixed == MaybeReinitRadio(aged)
             after == MaybeReboot(MaybeRendezvous(fixed, adapts[b]))
             t == Taken(aged, fixed, b)
         IN  after \in Modal /\ t \in Trials /\ Due(after, t) /\ Last(t, adapts[b])
  <1> DEFINE aged == Aged(r)
             fixed == MaybeReinitRadio(aged)
             met == MaybeRendezvous(fixed, adapts[b])
             after == MaybeReboot(met)
             t == Taken(aged, fixed, b)
             s == tried[b]
             steps == s.steps \union (IF IsStuck(aged) THEN {"reinit"} ELSE {})
                        \union (IF IsApart(fixed, adapts[b]) THEN {"rendezvous"} ELSE {})
  <1>1. /\ r.at \in Modes /\ r.linked \in BOOLEAN /\ r.wedge \in {"no", "soft", "hard"}
        /\ r.unheard \in 0 .. MostLost /\ r.reinit \in 0 .. MostStuck
        /\ r.fallback \in 0 .. MostApart
    BY DEF Modal
  <1>2. s.steps \in SUBSET Steps /\ s.reboots \in 0 .. 3 /\ s.before \in SUBSET Steps
    BY DEF Trials
  <1>3. /\ aged \in Modal /\ aged.at = r.at /\ aged.linked = r.linked /\ aged.wedge = r.wedge
        /\ aged.unheard \in 0 .. MostLost /\ aged.unheard <= r.unheard + 1
        /\ aged.reinit = Later(r.reinit, MostStuck)
        /\ aged.fallback = Later(r.fallback, MostApart)
    <2>1. /\ Later(r.unheard, MostLost) \in 0 .. MostLost
          /\ Later(r.unheard, MostLost) <= r.unheard + 1
      BY <1>1, LongestWaits DEF Later
    <2>2. Later(r.reinit, MostStuck) \in 0 .. MostStuck
      BY <1>1, LongestWaits DEF Later
    <2>3. Later(r.fallback, MostApart) \in 0 .. MostApart
      BY <1>1, LongestWaits DEF Later
    <2>4. aged = [r EXCEPT !.unheard = Later(r.unheard, MostLost),
                           !.reinit = Later(r.reinit, MostStuck),
                           !.fallback = Later(r.fallback, MostApart)]
      BY DEF Aged, Modal
    <2>5. aged \in Modal
      BY <2>1, <2>2, <2>3, <2>4 DEF Modal
    <2> QED
      BY <2>1, <2>4, <2>5 DEF Modal
  <1>4. /\ "reinit" \in s.steps \/ aged.reinit = MostStuck \/ aged.unheard <= aged.reinit
        /\ "rendezvous" \in s.steps \/ aged.fallback = MostApart \/ aged.unheard <= aged.fallback
    <2>1. /\ MostStuck \in Nat /\ MostApart \in Nat
          /\ aged.unheard \in Int /\ r.unheard \in Int /\ aged.unheard <= r.unheard + 1
          /\ r.reinit \in 0 .. MostStuck /\ r.fallback \in 0 .. MostApart
      BY <1>1, <1>3, LongestWaits
    <2>2. aged.reinit = IF r.reinit < MostStuck THEN r.reinit + 1 ELSE r.reinit
      BY <1>3 DEF Later
    <2>3. aged.fallback = IF r.fallback < MostApart THEN r.fallback + 1 ELSE r.fallback
      BY <1>3 DEF Later
    <2>4. /\ "reinit" \in s.steps \/ r.reinit = MostStuck \/ r.unheard <= r.reinit
          /\ "rendezvous" \in s.steps \/ r.fallback = MostApart \/ r.unheard <= r.fallback
      BY DEF Due
    <2>5. r.reinit = MostStuck \/ r.unheard <= r.reinit
             => aged.reinit = MostStuck \/ aged.unheard <= aged.reinit
      BY ONLY <2>1, <2>2
    <2>6. r.fallback = MostApart \/ r.unheard <= r.fallback
             => aged.fallback = MostApart \/ aged.unheard <= aged.fallback
      BY ONLY <2>1, <2>3
    <2> QED
      BY ONLY <2>4, <2>5, <2>6, Zenon
  <1> HIDE DEF aged
  <1>5. /\ aged.at \in Modes /\ aged.reinit \in 0 .. MostStuck /\ aged.fallback \in 0 .. MostApart
        /\ aged.linked \in BOOLEAN
    BY <1>3 DEF Modal
  <1>13. /\ Stuck[aged.at] \in Nat /\ Apart[aged.at] \in Nat /\ Lost[aged.at] \in Nat
         /\ Stuck[aged.at] <= MostStuck /\ Apart[aged.at] <= MostApart
         /\ Stuck[aged.at] <= Apart[aged.at] /\ Apart[aged.at] < Lost[aged.at]
         /\ MostStuck \in Nat /\ MostApart \in Nat
         /\ aged.unheard \in Int /\ aged.reinit \in Int /\ aged.fallback \in Int
    <2>1. aged.unheard \in Int /\ aged.reinit \in Int /\ aged.fallback \in Int
      BY <1>3, <1>5, LongestWaits
    <2>2. \A m \in Modes : /\ Stuck[m] \in Nat /\ Apart[m] \in Nat /\ Lost[m] \in Nat
                           /\ Stuck[m] <= MostStuck /\ Apart[m] <= MostApart
                           /\ Stuck[m] <= Apart[m] /\ Apart[m] < Lost[m]
      BY LongestWaits
    <2>3. aged.at \in Modes /\ MostStuck \in Nat /\ MostApart \in Nat
      BY <1>5, LongestWaits
    <2> QED
      BY ONLY <2>1, <2>2, <2>3
  <1>14. "reinit" \notin s.steps /\ aged.unheard >= Stuck[aged.at] => aged.reinit >= Stuck[aged.at]
    BY ONLY <1>4, <1>13
  <1>15. "rendezvous" \notin s.steps /\ aged.unheard >= Apart[aged.at]
            => aged.fallback >= Apart[aged.at]
    BY ONLY <1>4, <1>13
  <1>6. /\ fixed \in Modal /\ fixed.at = aged.at /\ fixed.linked = aged.linked
        /\ fixed.unheard = aged.unheard /\ fixed.fallback = aged.fallback
        /\ ~IsStuck(aged) => fixed = aged
    <2>1. CASE IsStuck(aged)
      <3>1. fixed.wedge \in {"no", "soft", "hard"} /\ fixed.reinit = 0
        BY <1>3, <2>1 DEF MaybeReinitRadio, Modal
      <3>2. fixed = [aged EXCEPT !.reinit = 0, !.wedge = fixed.wedge]
        BY <1>3, <2>1 DEF MaybeReinitRadio, Modal
      <3>3. 0 \in 0 .. MostStuck
        BY LongestWaits
      <3> QED
        BY <1>3, <2>1, <3>1, <3>2, <3>3 DEF Modal
    <2>2. CASE ~IsStuck(aged)
      BY <1>3, <2>2 DEF MaybeReinitRadio
    <2> QED
      BY <2>1, <2>2
  <1>7. "reinit" \in steps \/ fixed.reinit = MostStuck \/ fixed.unheard <= fixed.reinit
    <2>1. CASE IsStuck(aged)
      BY <2>1
    <2>2. CASE ~IsStuck(aged)
      BY <1>4, <1>6, <2>2
    <2> QED
      BY <2>1, <2>2
  <1> HIDE DEF fixed
  <1>8. /\ met \in Modal /\ met.linked = r.linked
        /\ met.unheard = aged.unheard /\ met.reinit = fixed.reinit
        /\ ~IsApart(fixed, adapts[b]) => met = fixed
    <2>1. CASE IsApart(fixed, adapts[b])
      <3>1. Meeting \in Modes /\ 0 \in 0 .. MostApart
        BY LongestWaits DEF LoRa
      <3>2. met = [fixed EXCEPT !.fallback = 0, !.at = Meeting]
        BY <2>1 DEF MaybeRendezvous
      <3>3. met \in Modal
        BY <1>6, <3>1, <3>2 DEF Modal
      <3> QED
        BY <1>3, <1>6, <2>1, <3>2, <3>3 DEF Modal
    <2>2. CASE ~IsApart(fixed, adapts[b])
      BY <1>3, <1>6, <2>2 DEF MaybeRendezvous
    <2> QED
      BY <2>1, <2>2
  <1>9. "rendezvous" \in steps \/ met.fallback = MostApart \/ met.unheard <= met.fallback
    <2>1. CASE IsApart(fixed, adapts[b])
      BY <2>1
    <2>2. CASE ~IsApart(fixed, adapts[b])
      BY <1>4, <1>6, <1>8, <2>2
    <2> QED
      BY <2>1, <2>2
  <1> HIDE DEF met
  <1>10. steps \in SUBSET Steps
    BY <1>2 DEF Steps
  <1>11. CASE IsLost(met)
    <2>1. after = Boot /\ t = [steps |-> {}, reboots |-> Later(s.reboots, 3), before |-> steps]
      BY <1>11 DEF MaybeReboot, Taken, met
    <2>2. s.reboots = 0
      BY <1>2, <1>8, <1>11 DEF IsLost, Due
    <2>3. t.reboots = 1 /\ t.before = steps /\ t \in Trials
      BY <1>10, <2>1, <2>2 DEF Later, Trials
    <2>4. met.unheard >= Lost[met.at] /\ met.at \in Modes /\ met.unheard \in Int
      BY <1>8, <1>11 DEF IsLost, Modal
    <2>5. "reinit" \in steps
      <3>1. CASE IsApart(fixed, adapts[b])
        <4>1. aged.unheard >= Apart[aged.at]
          BY <1>6, <3>1 DEF IsApart
        <4>2. aged.unheard >= Stuck[aged.at]
          BY ONLY <1>13, <4>1
        <4> QED
          BY <1>14, <4>2 DEF IsStuck
      <3>2. CASE ~IsApart(fixed, adapts[b])
        <4>1. met.at = aged.at /\ met.unheard = aged.unheard
          BY <1>6, <1>8, <3>2
        <4>2. aged.unheard >= Stuck[aged.at]
          BY ONLY <1>13, <2>4, <4>1
        <4> QED
          BY <1>14, <4>2 DEF IsStuck
      <3> QED
        BY <3>1, <3>2
    <2>6. adapts[b] => "rendezvous" \in steps
      <3> SUFFICES ASSUME adapts[b], ~IsApart(fixed, adapts[b]), "rendezvous" \notin s.steps
                   PROVE  FALSE
        OBVIOUS
      <3>1. met.at = aged.at /\ met.unheard = aged.unheard
        BY <1>6, <1>8
      <3>2. aged.unheard >= Apart[aged.at]
        BY ONLY <1>13, <2>4, <3>1
      <3>3. aged.fallback >= Apart[aged.at]
        BY <1>15, <3>2
      <3> QED
        BY <1>6, <3>2, <3>3 DEF IsApart
    <2>7. after \in Modal /\ Due(after, t)
      BY <2>1, <2>3, BootIsFresh
    <2>8. Last(t, adapts[b])
      BY <2>3, <2>5, <2>6 DEF Last
    <2> QED
      BY <2>3, <2>7, <2>8 DEF aged, fixed, met
  <1>12. CASE ~IsLost(met)
    <2>1. after = met /\ t = [s EXCEPT !.steps = steps]
      BY <1>12 DEF MaybeReboot, Taken, met
    <2>2. t \in Trials /\ t.steps = steps /\ t.reboots = s.reboots /\ t.before = s.before
      BY <1>10, <2>1 DEF Trials
    <2>3. Due(after, t)
      BY <1>7, <1>8, <1>9, <2>1, <2>2, <1>6, <1>3 DEF Due
    <2>4. Last(t, adapts[b])
      BY <2>2 DEF Last
    <2> QED
      BY <1>8, <2>1, <2>2, <2>3, <2>4 DEF aged, fixed, met
  <1> QED
    BY <1>11, <1>12

(* Boards just switched on.                                                *)
LEMMA RecoveryInit_Inv ==
  RecoveryInit => RecoveryInv
  <1> SUFFICES ASSUME RecoveryInit PROVE RecoveryInv
    OBVIOUS
  <1>1. board \in [Boards -> Modal] /\ tried \in [Boards -> Trials]
    BY BootIsFresh DEF RecoveryInit
  <1>2. adapts \in [Boards -> BOOLEAN] /\ upsets \in 0 .. MaxUpsets
    BY DEF RecoveryInit
  <1>3. ASSUME NEW b \in Boards PROVE Due(board[b], tried[b]) /\ Last(tried[b], adapts[b])
    BY BootIsFresh DEF RecoveryInit
  <1> QED
    BY <1>1, <1>2, <1>3, BoardByBoard

(* Every step of the recovery keeps its invariant: a reboot is a pass that *)
(* PassKeeps, and nobody else counts one.                                  *)
LEMMA RecoveryStep ==
  RecoveryInv /\ [RecoveryNext]_recoveryVars => RecoveryInv'
  <1> SUFFICES ASSUME RecoveryInv, [RecoveryNext]_recoveryVars
               PROVE  RecoveryInv'
    OBVIOUS
  <1>1. /\ board \in [Boards -> Modal] /\ tried \in [Boards -> Trials]
        /\ adapts \in [Boards -> BOOLEAN] /\ upsets \in 0 .. MaxUpsets
        /\ \A b \in Boards : Due(board[b], tried[b]) /\ Last(tried[b], adapts[b])
    BY BoardByBoard
  <1> DEFINE Kept == /\ board' \in [Boards -> Modal] /\ tried' \in [Boards -> Trials]
                     /\ adapts' \in [Boards -> BOOLEAN] /\ upsets' \in 0 .. MaxUpsets
                     /\ \A b \in Boards : /\ Due(board'[b], tried'[b])
                                          /\ Last(tried'[b], adapts'[b])
  <1>4. SUFFICES Kept
    BY DEF Kept, RecoveryInv, RecoveryTypeOK, StepsAreDue, NoBootLoop, RebootIsLast,
           Modal, Trials, Due, Last
  <1>5. CASE Meet
    <2>1. /\ board' = [b \in Boards |-> [board[b] EXCEPT !.linked = TRUE, !.unheard = 0]]
          /\ tried' = [b \in Boards |-> Untried] /\ UNCHANGED <<adapts, upsets>>
      BY <1>5 DEF Meet
    <2>2. ASSUME NEW b \in Boards
          PROVE  /\ board'[b] \in Modal /\ Due(board'[b], tried'[b])
                 /\ Last(tried'[b], adapts'[b])
      <3>1. board[b] \in Modal /\ tried'[b] = Untried
        BY <1>1, <2>1
      <3>2. 0 \in 0 .. MostLost /\ board[b].reinit \in 0 .. MostStuck
            /\ board[b].fallback \in 0 .. MostApart
        BY <3>1, LongestWaits DEF Modal
      <3>3. board'[b] = [board[b] EXCEPT !.linked = TRUE, !.unheard = 0]
        BY <2>1
      <3>4. board'[b] \in Modal /\ board'[b].unheard = 0
            /\ board'[b].reinit = board[b].reinit /\ board'[b].fallback = board[b].fallback
        BY <3>1, <3>2, <3>3 DEF Modal
      <3>5. Due(board'[b], Untried)
        BY <3>2, <3>4 DEF Due, Untried
      <3> QED
        BY <3>1, <3>4, <3>5, BootIsFresh
    <2>3. board' \in [Boards -> Modal] /\ tried' \in [Boards -> Trials]
      BY <2>1, <2>2, BootIsFresh
    <2> QED
      BY <1>1, <2>1, <2>2, <2>3
  <1>6. CASE Tick
    <2> DEFINE aged == [b \in Boards |-> Aged(board[b])]
               fixed == [b \in Boards |-> MaybeReinitRadio(aged[b])]
    <2>1. /\ board' = [b \in Boards |-> MaybeReboot(MaybeRendezvous(fixed[b], adapts[b]))]
          /\ tried' = [b \in Boards |-> Taken(aged[b], fixed[b], b)]
          /\ UNCHANGED <<adapts, upsets>>
      BY <1>6 DEF Tick
    <2>2. ASSUME NEW b \in Boards
          PROVE  /\ board'[b] \in Modal /\ tried'[b] \in Trials
                 /\ Due(board'[b], tried'[b]) /\ Last(tried'[b], adapts'[b])
      <3>1. /\ board'[b] = MaybeReboot(MaybeRendezvous(MaybeReinitRadio(Aged(board[b])), adapts[b]))
            /\ tried'[b] = Taken(Aged(board[b]), MaybeReinitRadio(Aged(board[b])), b)
            /\ adapts'[b] = adapts[b]
        BY <2>1
      <3>2. /\ board[b] \in Modal /\ tried[b] \in Trials /\ adapts[b] \in BOOLEAN
            /\ Due(board[b], tried[b]) /\ Last(tried[b], adapts[b])
        BY <1>1
      <3> QED
        BY <3>1, <3>2, PassKeeps
    <2>3. board' \in [Boards -> Modal] /\ tried' \in [Boards -> Trials]
      BY <2>1, <2>2
    <2> QED
      BY <1>1, <2>1, <2>2, <2>3
  <1>7. CASE Clears
    <2>1. upsets' = 0 /\ UNCHANGED <<board, adapts, tried>>
      BY <1>7 DEF Clears
    <2>2. upsets' \in 0 .. MaxUpsets
      BY <2>1
    <2> QED
      BY <1>1, <2>1, <2>2
  <1>8. ASSUME Upset PROVE upsets' \in 0 .. MaxUpsets
    BY <1>1, <1>8 DEF Upset
  (* Upsets that touch neither the ages nor what was tried. *)
  <1>9. ASSUME NEW b \in Boards, NEW r \in Modal, Upset, UNCHANGED <<adapts, tried>>,
               board' = [board EXCEPT ![b] = r],
               r.linked = board[b].linked, r.unheard = board[b].unheard,
               r.reinit = board[b].reinit, r.fallback = board[b].fallback
        PROVE  Kept
    <2>1. board' \in [Boards -> Modal]
      BY <1>1, <1>9
    <2>2. ASSUME NEW c \in Boards PROVE Due(board'[c], tried'[c]) /\ Last(tried'[c], adapts'[c])
      <3>1. Due(board[c], tried[c]) /\ Last(tried[c], adapts[c])
        BY <1>1
      <3>2. CASE c = b
        BY <1>1, <1>9, <3>1, <3>2 DEF Due
      <3>3. CASE c # b
        BY <1>1, <1>9, <3>1, <3>3
      <3> QED
        BY <3>2, <3>3
    <2> QED
      BY <1>1, <1>8, <1>9, <2>1, <2>2
  <1>10. ASSUME NEW b \in Boards, NEW m \in Modes, Diverge(b, m)
         PROVE  Kept
    <2> DEFINE r == [board[b] EXCEPT !.at = m]
    <2>1. /\ Upset /\ UNCHANGED <<adapts, tried>>
          /\ board' = [board EXCEPT ![b] = r]
      BY <1>1, <1>10 DEF Diverge
    <2>2. board[b] \in Modal
      BY <1>1
    <2>3. /\ r \in Modal /\ r.linked = board[b].linked /\ r.unheard = board[b].unheard
          /\ r.reinit = board[b].reinit /\ r.fallback = board[b].fallback
      BY <2>2 DEF Modal
    <2> HIDE DEF r
    <2> QED
      BY <1>9, <2>1, <2>3
  <1>11. ASSUME NEW b \in Boards, NEW how \in {"soft", "hard"}, Wedges(b, how)
         PROVE  Kept
    <2> DEFINE r == [board[b] EXCEPT !.wedge = how]
    <2>1. /\ Upset /\ UNCHANGED <<adapts, tried>>
          /\ board' = [board EXCEPT ![b] = r]
      BY <1>1, <1>11 DEF Wedges
    <2>2. board[b] \in Modal
      BY <1>1
    <2>3. /\ r \in Modal /\ r.linked = board[b].linked /\ r.unheard = board[b].unheard
          /\ r.reinit = board[b].reinit /\ r.fallback = board[b].fallback
      BY <2>2 DEF Modal
    <2> HIDE DEF r
    <2> QED
      BY <1>9, <2>1, <2>3
  <1>12. ASSUME NEW b \in Boards, PowerCycle(b)
         PROVE  Kept
    <2>1. /\ Upset /\ adapts' = adapts
          /\ board' = [board EXCEPT ![b] = Boot] /\ tried' = [tried EXCEPT ![b] = Untried]
      BY <1>12 DEF PowerCycle
    <2>2. board' \in [Boards -> Modal] /\ tried' \in [Boards -> Trials]
      BY <1>1, <2>1, BootIsFresh
    <2>3. ASSUME NEW c \in Boards PROVE Due(board'[c], tried'[c]) /\ Last(tried'[c], adapts'[c])
      <3>1. Due(board[c], tried[c]) /\ Last(tried[c], adapts[c])
        BY <1>1
      <3>2. CASE c = b
        <4>1. board'[c] = Boot /\ tried'[c] = Untried
          BY <1>1, <2>1, <3>2
        <4> QED
          BY <4>1, BootIsFresh
      <3>3. CASE c # b
        BY <1>1, <2>1, <3>1, <3>3
      <3> QED
        BY <3>2, <3>3
    <2> QED
      BY <1>1, <1>8, <2>1, <2>2, <2>3
  <1>13. ASSUME NEW m \in Modes, Pin(m)
         PROVE  Kept
    <2>1. /\ Upset /\ tried' = tried
          /\ board' = [b \in Boards |-> [board[b] EXCEPT !.at = m]]
      BY <1>13 DEF Pin
    <2>2. PICK d \in Boards : adapts' = [adapts EXCEPT ![d] = FALSE]
      BY <1>13 DEF Pin
    <2>3. adapts' \in [Boards -> BOOLEAN] /\ \A c \in Boards : adapts'[c] => adapts[c]
      BY <1>1, <2>2
    <2>4. ASSUME NEW c \in Boards
          PROVE  board'[c] \in Modal /\ Due(board'[c], tried'[c]) /\ Last(tried'[c], adapts'[c])
      <3>1. Due(board[c], tried[c]) /\ Last(tried[c], adapts[c]) /\ board[c] \in Modal
        BY <1>1
      <3>2. board'[c] = [board[c] EXCEPT !.at = m]
        BY <2>1
      <3>3. board'[c] \in Modal
        BY <3>1, <3>2 DEF Modal
      <3>4. Due(board'[c], tried'[c])
        BY <2>1, <3>1, <3>2 DEF Due, Modal
      <3>5. Last(tried'[c], adapts'[c])
        BY <2>1, <2>3, <3>1 DEF Last
      <3> QED
        BY <3>3, <3>4, <3>5
    <2>5. board' \in [Boards -> Modal]
      BY <2>1, <2>4
    <2> QED
      BY <1>1, <1>8, <2>1, <2>3, <2>4, <2>5
  <1>14. CASE UNCHANGED recoveryVars
    BY <1>1, <1>14 DEF recoveryVars
  <1> QED
    BY <1>5, <1>6, <1>7, <1>10, <1>11, <1>12, <1>13, <1>14 DEF RecoveryNext

(* fw_device.cpp, MaybeReboot: in one silence a board reboots once at the  *)
(* most, after a re-init and, if it adapts, a rendezvous.                  *)
THEOREM NoBoardBootLoops == RecoverySpec => []NoBootLoop
  <1>1. RecoveryInv => NoBootLoop
    BY DEF RecoveryInv
  <1> QED
    BY <1>1, RecoveryInit_Inv, RecoveryStep, PTL DEF RecoverySpec

HIDE ModesAssumption
HIDE LadderAssumption
HIDE BoardsAssumption
HIDE TimesAssumption

-----------------------------------------------------------------------------
(* The rate control: what Decide comes to.                                 *)

USE ModesAssumption, LadderAssumption, BootAssumption, TimerAssumption

Adrs == [age : 0 .. SwitchTimeout + 1, cooldown_until : Ticks,
         want : Modes \union {None}, stable : 0 .. UpStable - 1,
         penalized : Modes \union {None}, penalized_until : Ticks]
Losses == [retx : Retxs, fresh : BOOLEAN]

(* Long is longer than a cooldown and than a penalty.                      *)
LEMMA LongIsLong ==
  /\ Long \in Nat /\ Cooldown \in 1 .. Long /\ Penalty \in 1 .. Long
  /\ \A d \in Ticks : d \in Int /\ d # Long + Long + 1 /\ (d = None \/ d \in 0 .. Long + Long)
  /\ None \in Ticks /\ None \in Int /\ None < 0
  BY DEF Long, Ticks, None

(* A period takes one from a deadline, or the wrap turns it over.          *)
LEMMA NearerTicks ==
  ASSUME NEW d \in Ticks, wraps.near \in Nat
  PROVE  /\ Nearer(d) \in Ticks
         /\ wraps.near = 1 /\ Void(d) => Nearer(d) = d - Long - 1
         /\ wraps.near = 1 /\ ~Void(d) /\ d # None => Nearer(d) = Long
         /\ wraps.near # 1 => Nearer(d) = IF d \in {None, 0, Long} THEN d ELSE d - 1
  <1>1. d = None \/ d \in 0 .. Long + Long
    BY LongIsLong
  <1>2. CASE wraps.near = 1 /\ d = None
    BY <1>2, LongIsLong DEF Nearer, Void
  <1>3. CASE wraps.near = 1 /\ d # None /\ Void(d)
    <2>1. Nearer(d) = d - Long - 1
      BY <1>3 DEF Nearer
    <2>2. d - Long - 1 \in 0 .. Long + Long
      BY <1>1, <1>3, LongIsLong DEF Void
    <2> QED
      BY <1>3, <2>1, <2>2 DEF Ticks
  <1>4. CASE wraps.near = 1 /\ d # None /\ ~Void(d)
    <2>1. Nearer(d) = Long
      BY <1>4 DEF Nearer
    <2>2. Long \in 0 .. Long + Long
      BY LongIsLong
    <2> QED
      BY <1>4, <2>1, <2>2 DEF Ticks
  <1>5. CASE wraps.near # 1
    <2>1. Nearer(d) = IF d \in {None, 0, Long} THEN d ELSE d - 1
      BY <1>5 DEF Nearer
    <2>2. d \notin {None, 0, Long} => d - 1 \in 0 .. Long + Long
      BY <1>1, LongIsLong
    <2> QED
      BY <1>5, <2>1, <2>2 DEF Ticks
  <1> QED
    BY <1>2, <1>3, <1>4, <1>5

(* A deadline that is set is one of those that occur; it overflows only    *)
(* when the wrap comes within it.                                          *)
LEMMA UntilTicks ==
  ASSUME NEW n \in 1 .. Long, wraps.near \in Nat
  PROVE  /\ Until(n) \in Ticks /\ ToWrap \in Nat
         /\ (Until(n) = Long + n /\ ToWrap \in 1 .. n) \/ Until(n) = n
  <1>1. ToWrap \in Nat
    BY DEF ToWrap
  <1>2. (Until(n) = Long + n /\ ToWrap \in 1 .. n) \/ Until(n) = n
    BY <1>1 DEF Until
  <1>3. Long + n \in 0 .. Long + Long /\ n \in 0 .. Long + Long
    BY LongIsLong
  <1> QED
    BY <1>1, <1>2, <1>3 DEF Ticks

(* What Commit and OnFallback begin with leaves the penalty alone.         *)
LEMMA ForgetKeeps ==
  ASSUME NEW a \in Adrs
  PROVE  /\ Forget(a) \in Adrs /\ Forget(a).stable = 0 /\ Forget(a).age = a.age
         /\ Forget(a).penalized = a.penalized /\ Forget(a).penalized_until = a.penalized_until
         /\ [Forget(a) EXCEPT !.age = 0] \in Adrs
         /\ [Forget(a) EXCEPT !.age = 0].age = 0
         /\ [Forget(a) EXCEPT !.age = 0].stable = 0
         /\ [Forget(a) EXCEPT !.age = 0].penalized = a.penalized
         /\ [Forget(a) EXCEPT !.age = 0].penalized_until = a.penalized_until
  <1>1. 0 \in 0 .. UpStable - 1 /\ 0 \in 0 .. SwitchTimeout + 1 /\ None \in Modes \union {None}
    OBVIOUS
  <1> QED
    BY <1>1 DEF Forget, Adrs

(* What Pick proposes is a mode, and below the penalty if there is one; or *)
(* the most robust of all.                                                 *)
LEMMA PickIsMode ==
  ASSUME NEW a \in Adrs, NEW cur \in Modes, NEW retx
  PROVE  /\ Pick(a, cur, retx) \in Modes
         /\ a.penalized # None /\ Ahead(a.penalized_until) =>
              \/ Pick(a, cur, retx) = LastLora
              \/ Rank(Pick(a, cur, retx)) < Rank(a.penalized)
  <1> DEFINE bySnr == PickBySnr(radio.reading.snr)
             gfsk == Fsk # {} /\ cur = FastestAutoLora /\ radio.reading.strong /\ retx <= UpMaxRetx
             pick == IF gfsk THEN Max(Fsk) ELSE bySnr
  <1>1. pick \in Modes
    BY PickIsLora, GfskMode, LadderEnds
  <1> HIDE DEF pick
  <1>2. Pick(a, cur, retx) = IF OffLimits(a, pick) THEN MoreRobust(a.penalized) ELSE pick
    BY DEF Pick, pick
  <1>3. a.penalized \in Modes \union {None}
    BY DEF Adrs
  <1>4. CASE OffLimits(a, pick)
    <2>1. a.penalized \in Modes
      BY <1>3, <1>4 DEF OffLimits
    <2>2. Pick(a, cur, retx) = MoreRobust(a.penalized)
      BY <1>2, <1>4
    <2> QED
      BY <2>1, <2>2, RanksOfModes
  <1>5. CASE ~OffLimits(a, pick)
    <2>1. Pick(a, cur, retx) = pick
      BY <1>2, <1>5
    <2>2. a.penalized \in Modes /\ Ahead(a.penalized_until) => ~(Rank(pick) >= Rank(a.penalized))
      BY <1>5 DEF OffLimits, None
    <2>3. a.penalized \in Modes => Rank(pick) \in Int /\ Rank(a.penalized) \in Int
      BY <1>1, RanksOfModes
    <2> QED
      BY <1>1, <1>3, <2>1, <2>2, <2>3
  <1> QED
    BY <1>4, <1>5

(* The row grows by one at the most.                                       *)
LEMMA WantedKeeps ==
  ASSUME NEW a \in Adrs, NEW m \in Modes
  PROVE  LET up == Wanted(a, m)
         IN  /\ up.stable \in Nat /\ up.stable <= a.stable + 1 /\ up.age = a.age
             /\ up.penalized = a.penalized /\ up.penalized_until = a.penalized_until
             /\ up.stable < UpStable => up \in Adrs
  <1> DEFINE s == IF m = a.want THEN a.stable + 1 ELSE 1
  <1>1. s \in Nat /\ s <= a.stable + 1 /\ (s < UpStable => s \in 0 .. UpStable - 1)
    BY SMTT(20) DEF Adrs
  <1>2. Wanted(a, m) = [a EXCEPT !.want = m, !.stable = s]
    BY DEF Wanted, Adrs
  <1> HIDE DEF s
  <1> QED
    BY <1>1, <1>2, ZenonT(30) DEF Adrs

(* The ways of an evaluation.                                              *)
LEMMA EvaluateCases ==
  ASSUME NEW a \in Adrs, NEW cur \in Modes, NEW retx \in Retxs
  PROVE  LET d == Evaluate(a, cur, retx)
             pick == Pick(a, cur, retx)
             up == Wanted(a, pick)
         IN  \/ d = Decision(a, "none", None) /\ (cur = LastLora \/ cur \in Fsk)
             \/ d = Decision(Forget(a), "none", None)
             \/ d = Commit(a, MoreRobust(cur)) /\ cur # LastLora
             \/ d = Commit(a, pick) /\ pick # cur /\ ~Faster(pick, cur)
             \/ d = Commit(a, pick) /\ Faster(pick, cur) /\ up.stable >= UpStable
             \/ /\ d = Decision(up, "none", None) /\ up.stable < UpStable
                /\ retx <= UpMaxRetx /\ cur \notin Fsk
  <1> DEFINE d == Evaluate(a, cur, retx)
             pick == Pick(a, cur, retx)
             up == Wanted(a, pick)
  <1>1. retx \in Int /\ DownRetx \in Int /\ UpMaxRetx \in Int /\ UpStable \in Int
    OBVIOUS
  <1>2. pick \in Modes /\ Rank(pick) \in Int /\ Rank(cur) \in Int
    BY PickIsMode, RanksOfModes
  <1>3. up.stable \in Nat
    BY <1>2, WantedKeeps
  <1> HIDE DEF pick, up
  <1>4. d = CASE retx >= DownRetx ->
                 IF MoreRobust(cur) = cur THEN Decision(a, "none", None) ELSE Commit(a, MoreRobust(cur))
              [] retx < DownRetx /\ cur \in Fsk -> Decision(a, "none", None)
              [] OTHER ->
                 CASE pick = cur -> Decision(Forget(a), "none", None)
                   [] Faster(pick, cur) /\ retx > UpMaxRetx -> Decision(Forget(a), "none", None)
                   [] Faster(pick, cur) /\ retx <= UpMaxRetx ->
                          IF up.stable >= UpStable THEN Commit(a, pick) ELSE Decision(up, "none", None)
                   [] OTHER -> Commit(a, pick)
    BY DEF Evaluate, pick, up
  <1> HIDE DEF d
  <1>5. CASE retx >= DownRetx
    <2>1. ~(retx < DownRetx)
      BY <1>1, <1>5
    <2>2. d = IF MoreRobust(cur) = cur THEN Decision(a, "none", None) ELSE Commit(a, MoreRobust(cur))
      BY ONLY <1>4, <1>5, <2>1
    <2> QED
      BY <2>2, RanksOfModes DEF d, pick, up
  <1>6. CASE retx < DownRetx /\ cur \in Fsk
    <2>1. ~(retx >= DownRetx)
      BY <1>1, <1>6
    <2>2. d = Decision(a, "none", None)
      BY ONLY <1>4, <1>6, <2>1
    <2> QED
      BY <1>6, <2>2 DEF d, pick, up
  <1>7. CASE ~(retx >= DownRetx) /\ cur \notin Fsk
    <2>1. d = CASE pick = cur -> Decision(Forget(a), "none", None)
                [] Faster(pick, cur) /\ retx > UpMaxRetx -> Decision(Forget(a), "none", None)
                [] Faster(pick, cur) /\ retx <= UpMaxRetx ->
                       IF up.stable >= UpStable THEN Commit(a, pick) ELSE Decision(up, "none", None)
                [] OTHER -> Commit(a, pick)
      BY ONLY <1>4, <1>7
    <2>2. CASE pick = cur
      <3>1. ~Faster(pick, cur)
        BY <1>2, <2>2 DEF Faster
      <3>2. d = Decision(Forget(a), "none", None)
        BY ONLY <2>1, <2>2, <3>1
      <3> QED
        BY <3>2 DEF d
    <2>3. CASE pick # cur /\ Faster(pick, cur) /\ retx > UpMaxRetx
      <3>1. ~(retx <= UpMaxRetx)
        BY <1>1, <2>3
      <3>2. d = Decision(Forget(a), "none", None)
        BY ONLY <2>1, <2>3, <3>1
      <3> QED
        BY <3>2 DEF d
    <2>4. CASE pick # cur /\ Faster(pick, cur) /\ retx <= UpMaxRetx
      <3>1. ~(retx > UpMaxRetx)
        BY <1>1, <2>4
      <3>2. d = IF up.stable >= UpStable THEN Commit(a, pick) ELSE Decision(up, "none", None)
        BY ONLY <2>1, <2>4, <3>1
      <3> QED
        BY <1>1, <1>3, <1>7, <2>4, <3>2 DEF d, pick, up
    <2>5. CASE pick # cur /\ ~Faster(pick, cur)
      <3>1. d = Commit(a, pick)
        BY ONLY <2>1, <2>5
      <3> QED
        BY <2>5, <3>1 DEF d, pick
    <2> QED
      BY <1>1, <2>2, <2>3, <2>4, <2>5
  <1> QED
    BY <1>1, <1>5, <1>6, <1>7

(* What a call of Decide comes to, for whoever keeps the row, the deadline  *)
(* and the age of the request.                                             *)
SamePenalty(a, b) == b.penalized = a.penalized /\ b.penalized_until = a.penalized_until

Asks(a, busy, cur, d) ==
  /\ d.kind = "request" /\ ~busy /\ d.mode \in Modes
  /\ d.adr.age = 0 /\ d.adr.stable = 0
  /\ Faster(d.mode, cur) =>
        /\ a.stable + 1 >= UpStable
        /\ a.penalized # None /\ Ahead(a.penalized_until) => Rank(d.mode) < Rank(a.penalized)

Waits(a, busy, cur, retx, d) ==
  /\ d.kind = "none" /\ d.adr.age = a.age
  /\ busy => d.adr = a /\ a.age <= SwitchTimeout
  /\ ~Evaluates(a, busy) => d.adr = a
  /\ d.adr.stable <= a.stable + 1
  /\ d.adr.stable \in {0, a.stable} \/ (retx <= UpMaxRetx /\ cur \notin Fsk)
  /\ Evaluates(a, busy) =>
        d.adr.stable = 0 \/ retx <= UpMaxRetx \/ cur = LastLora \/ cur \in Fsk

Decides(a, busy, cur, retx, d) ==
  /\ d.adr \in Adrs /\ SamePenalty(a, d.adr)
  /\ \/ Asks(a, busy, cur, d)
     \/ d.kind = "abort" /\ d.adr.stable = 0
     \/ Waits(a, busy, cur, retx, d)

(* Decide asks, gives up or waits, as those three operators say.           *)
LEMMA DecideCases ==
  ASSUME NEW a \in Adrs, NEW busy \in BOOLEAN, NEW cur \in Modes, NEW retx \in Retxs,
         wraps.near \in Nat
  PROVE  Decides(a, busy, cur, retx, Decide(a, busy, cur, retx))
  <1> DEFINE d == Decide(a, busy, cur, retx)
             pick == Pick(a, cur, retx)
             up == Wanted(a, pick)
             aborts == busy /\ a.age > SwitchTimeout
  <1> SUFFICES Decides(a, busy, cur, retx, d)
    OBVIOUS
  <1>1. a.stable \in Nat /\ a.age \in Int /\ UpStable \in Int
    BY DEF Adrs
  <1>2. CASE aborts
    <2>1. d = Decision([Forget(a) EXCEPT !.cooldown_until = Until(Cooldown)], "abort", None)
      BY <1>2 DEF Decide, Evaluates
    <2>2. Until(Cooldown) \in Ticks
      BY UntilTicks, LongIsLong
    <2> DEFINE f == Forget(a)
    <2>3. /\ f \in Adrs /\ f.stable = 0 /\ f.penalized = a.penalized
          /\ f.penalized_until = a.penalized_until
      BY ForgetKeeps
    <2> HIDE DEF f
    <2> DEFINE g == [f EXCEPT !.cooldown_until = Until(Cooldown)]
    <2>4. /\ g \in Adrs /\ g.stable = 0 /\ g.penalized = a.penalized
          /\ g.penalized_until = a.penalized_until
      BY <2>2, <2>3 DEF Adrs
    <2>5. d.adr = g /\ d.kind = "abort"
      BY <2>1 DEF Decision, f
    <2> HIDE DEF g
    <2> HIDE DEF d
    <2> QED
      BY <2>4, <2>5 DEF Decides, SamePenalty, Asks, Waits
  <1>3. CASE ~aborts /\ Evaluates(a, busy)
    <2>1. ~busy
      BY <1>3 DEF Evaluates
    <2>2. d = Evaluate(a, cur, retx)
      BY <1>3 DEF Decide
    <2>3. pick \in Modes
      BY PickIsMode
    <2> HIDE DEF pick
    <2> HIDE DEF d
    <2>4. CASE d = Decision(a, "none", None) /\ (cur = LastLora \/ cur \in Fsk)
      <3>1. d.adr = a /\ d.kind = "none"
        BY <2>4 DEF Decision
      <3> QED
        BY <1>1, <2>1, <2>4, <3>1, SMTT(20) DEF Decides, SamePenalty, Asks, Waits
    <2>5. CASE d = Decision(Forget(a), "none", None)
      <3>1. d.adr = Forget(a) /\ d.kind = "none"
        BY <2>5 DEF Decision
      <3>2. /\ d.adr \in Adrs /\ d.adr.stable = 0 /\ d.adr.age = a.age
            /\ SamePenalty(a, d.adr)
        BY <3>1, ForgetKeeps DEF SamePenalty
      <3>3. 0 <= a.stable + 1
        BY <1>1
      <3> QED
        BY <1>3, <2>1, <3>1, <3>2, <3>3 DEF Decides, Waits
    (* A request, to whatever mode. *)
    <2>6. ASSUME NEW m \in Modes, d = Commit(a, m)
          PROVE  /\ d.adr \in Adrs /\ d.kind = "request" /\ d.mode = m
                 /\ d.adr.penalized = a.penalized /\ d.adr.penalized_until = a.penalized_until
                 /\ d.adr.age = 0 /\ d.adr.stable = 0
      <3>1. d.adr = [Forget(a) EXCEPT !.age = 0] /\ d.kind = "request" /\ d.mode = m
        BY <2>6 DEF Commit, Decision
      <3> QED
        BY <3>1, ForgetKeeps
    <2>7. CASE d = Commit(a, MoreRobust(cur)) /\ cur # LastLora
      <3>1. ~Faster(MoreRobust(cur), cur) /\ MoreRobust(cur) \in Modes
        BY <2>7, RanksOfModes DEF Faster
      <3>2. d.mode = MoreRobust(cur)
        BY <2>6, <2>7, <3>1
      <3> QED
        BY <2>1, <2>6, <2>7, <3>1, <3>2 DEF Decides, SamePenalty, Asks, Waits
    <2>8. CASE d = Commit(a, pick) /\ pick # cur /\ ~Faster(pick, cur)
      <3>1. d.mode = pick
        BY <2>3, <2>6, <2>8
      <3> QED
        BY <2>1, <2>3, <2>6, <2>8, <3>1 DEF Decides, SamePenalty, Asks, Waits
    <2>9. CASE d = Commit(a, pick) /\ Faster(pick, cur) /\ up.stable >= UpStable
      <3>1. d.mode = pick
        BY <2>3, <2>6, <2>9
      <3>2. up.stable \in Nat /\ up.stable <= a.stable + 1
        BY <2>3, WantedKeeps
      <3>3. a.stable + 1 >= UpStable
        BY <1>1, <2>9, <3>2
      <3>4. pick # LastLora
        <4>1. Rank(pick) > Rank(cur)
          BY <2>9 DEF Faster
        <4>2. Rank(LastLora) <= Rank(cur) /\ Rank(cur) \in Int /\ Rank(pick) \in Int
          BY <2>3, RanksOfModes
        <4> QED
          BY <4>1, <4>2
      <3>5. a.penalized # None /\ Ahead(a.penalized_until) => Rank(pick) < Rank(a.penalized)
        BY <3>4, PickIsMode DEF pick
      <3> QED
        BY <2>1, <2>3, <2>6, <2>9, <3>1, <3>3, <3>5 DEF Decides, SamePenalty, Asks, Waits
    <2>10. CASE /\ d = Decision(up, "none", None) /\ up.stable < UpStable
                /\ retx <= UpMaxRetx /\ cur \notin Fsk
      <3>1. d.adr = up /\ d.kind = "none"
        BY <2>10 DEF Decision
      <3>2. /\ up \in Adrs /\ up.stable <= a.stable + 1 /\ up.age = a.age
            /\ up.penalized = a.penalized /\ up.penalized_until = a.penalized_until
        BY <2>3, <2>10, WantedKeeps
      <3> HIDE DEF up
      <3> QED
        BY <1>3, <2>1, <2>10, <3>1, <3>2 DEF Decides, SamePenalty, Asks, Waits
    <2> QED
      BY <2>2, <2>4, <2>5, <2>7, <2>8, <2>9, <2>10, EvaluateCases DEF pick
  <1>4. CASE ~aborts /\ ~Evaluates(a, busy)
    <2>1. d = Decision(a, "none", None)
      BY <1>4 DEF Decide
    <2>2. d.adr = a /\ d.kind = "none"
      BY <2>1 DEF Decision
    <2> HIDE DEF d
    <2> QED
      BY <1>1, <1>4, <2>2, SMTT(20) DEF Decides, SamePenalty, Asks, Waits
  <1> QED
    BY <1>2, <1>3, <1>4

(* The handshake's steps, as RowIsClean and RequestIsTimed see them: none   *)
(* starts a switch, and only a switch changes the mode.                    *)
LEMMA ServiceQuiet ==
  ASSUME NEW ms \in Switches
  PROVE  /\ Service(ms) \in Switches /\ Service(ms).target = ms.target
         /\ Busy(Service(ms)) => Busy(ms)
         /\ Service(ms).current # ms.current => Busy(ms)
  <1>1. CASE ms.apply = None
    BY <1>1 DEF Service
  <1>2. CASE ms.apply # None
    <2>1. ms.apply \in Modes /\ ms.current \in Modes /\ ms.prev \in Modes
      BY <1>2 DEF Switches
    <2>2. Busy(ms)
      BY <1>2 DEF Busy
    <2> DEFINE p == IF ms.apply # ms.current THEN ms.current ELSE ms.prev
    <2>3. Service(ms) = [ms EXCEPT !.apply = None, !.probation = TRUE,
                                   !.current = ms.apply, !.prev = p]
      BY <1>2 DEF Service, Switches
    <2>4. p \in Modes
      BY <2>1
    <2> HIDE DEF p
    <2> QED
      BY <2>1, <2>2, <2>3, <2>4 DEF Switches
  <1> QED
    BY <1>1, <1>2

(* A probation that ends takes the board back; it is busy before and       *)
(* after.                                                                  *)
LEMMA ExpiryQuiet ==
  ASSUME NEW ms \in Switches, ms.probation
  PROVE  LET new == Service(PollExpired(ms))
         IN  new \in Switches /\ new.target = ms.target /\ Busy(ms)
  <1>1. PollExpired(ms) = [ms EXCEPT !.probation = FALSE, !.apply = ms.prev]
    BY DEF PollExpired
  <1>2. PollExpired(ms) \in Switches /\ PollExpired(ms).target = ms.target
    BY <1>1 DEF Switches
  <1> QED
    BY <1>2, ServiceQuiet DEF Busy

(* An answered request ends in a switch; any other frame changes no mode   *)
(* but one that was due.                                                   *)
LEMMA RecvQuiet ==
  ASSUME NEW ms \in Switches, NEW rx \in Nat
  PROVE  LET new == Service(AfterRecv(ms, rx, TRUE))
         IN  /\ new \in Switches /\ new.target \in {ms.target, None}
             /\ Busy(new) => Busy(ms)
             /\ new.current # ms.current => Busy(ms)
  <1> DEFINE m == CtrlModeIdx(rx)
             kept == [ms EXCEPT !.probation = FALSE]
             after == AfterRecv(ms, rx, TRUE)
  <1>1. kept \in Switches /\ kept.target = ms.target /\ kept.current = ms.current
        /\ (Busy(kept) => Busy(ms))
    BY DEF Switches, Busy
  <1>2. CtrlPresent(rx) => m # None
    BY DEF CtrlPresent, CtrlModeIdx, None
  <1> DEFINE answered == CtrlPresent(rx) /\ CtrlIsAck(rx) /\ m = ms.target
  <1> HIDE DEF m
  <1>3. CASE answered
    <2>1. after = [kept EXCEPT !.apply = m, !.target = None]
      BY <1>3 DEF AfterRecv, m
    <2>2. m \in Modes /\ ms.target # None
      BY <1>2, <1>3 DEF Switches
    <2>3. Busy(ms)
      BY <2>2 DEF Busy
    <2> HIDE DEF kept
    <2>4. after \in Switches /\ after.target = None
      BY <1>1, <2>1, <2>2 DEF Switches
    <2> HIDE DEF after
    <2>5. Service(after) \in Switches /\ Service(after).target = None
      BY <2>4, ServiceQuiet
    <2> QED
      BY <2>3, <2>5 DEF after
  <1>4. CASE ~answered
    <2>1. after = kept
      BY <1>4 DEF AfterRecv, m
    <2> HIDE DEF kept
    <2> HIDE DEF after
    <2>2. /\ Service(after) \in Switches /\ Service(after).target = ms.target
          /\ Busy(Service(after)) => Busy(ms)
          /\ Service(after).current # ms.current => Busy(ms)
      BY <1>1, <2>1, ServiceQuiet
    <2> QED
      BY <2>2 DEF after
  <1> QED
    BY <1>3, <1>4

-----------------------------------------------------------------------------
(* The rate control: its steps.                                            *)

(* An age stops at its bound.                                              *)
LEMMA OlderIsBounded ==
  ASSUME NEW most \in Nat, NEW age \in 0 .. most
  PROVE  Older(age, most) \in 0 .. most
  BY DEF Older

(* The types, component by component.                                      *)
LEMMA RateTypes ==
  ASSUME RateTypeOK
  PROVE  /\ own \in Switches /\ adr \in Adrs /\ loss \in Losses
         /\ wraps.near \in 0 .. LastPeriods /\ wraps.near \in Nat
         /\ wraps.left \in 0 .. MaxWraps /\ wraps = [left |-> wraps.left, near |-> wraps.near]
         /\ history.fallback \in 0 .. Penalty /\ history.asked \in 0 .. SwitchTimeout + 2
         /\ history.clean \in 0 .. UpStable /\ calm \in BOOLEAN
         /\ history.fallback \in Nat /\ history.asked \in Nat /\ history.clean \in Nat
  BY DEF RateTypeOK, Adrs, Losses

(* The parts of RateInv, of values.                                        *)
RowOf(ms, a, clean) ==
  /\ Busy(ms) \/ ms.current \in Fsk => a.stable = 0
  /\ ms.current # LastLora => a.stable <= clean

PenaltyOf(f, a, near) ==
  f < Penalty =>
    /\ a.penalized # None
    /\ \/ Ahead(a.penalized_until) /\ a.penalized_until >= Penalty - f
       \/ /\ Void(a.penalized_until) /\ a.penalized_until - Long >= Penalty - f
          /\ near \in 1 .. a.penalized_until - Long

(* A period that brings no fallback leaves the penalty ahead, over the wrap *)
(* too.                                                                    *)
LEMMA PenaltyAges ==
  ASSUME NEW p \in Ticks, NEW f \in 0 .. Penalty, wraps.near \in Nat,
         \/ Ahead(p) /\ p >= Penalty - f
         \/ Void(p) /\ p - Long >= Penalty - f /\ wraps.near \in 1 .. p - Long,
         f + 1 < Penalty
  PROVE  LET q == Nearer(p)
         IN  \/ Ahead(q) /\ q >= Penalty - (f + 1)
             \/ Void(q) /\ q - Long >= Penalty - (f + 1) /\ ToWrap \in 1 .. q - Long
  <1> DEFINE q == Nearer(p)
  <1>1. /\ Long \in Nat /\ Penalty \in 1 .. Long /\ p \in Int /\ f \in Int
        /\ p = None \/ p \in 0 .. Long + Long
    BY LongIsLong
  <1>2. p # None /\ p >= 1
    BY <1>1 DEF Ahead, Void, None
  <1>3. /\ wraps.near = 1 /\ Void(p) => q = p - Long - 1
        /\ wraps.near = 1 /\ ~Void(p) => q = Long
        /\ wraps.near # 1 => q = IF p \in {None, 0, Long} THEN p ELSE p - 1
    BY <1>2, NearerTicks
  <1> SUFFICES \/ Ahead(q) /\ q >= Penalty - (f + 1)
               \/ Void(q) /\ q - Long >= Penalty - (f + 1) /\ ToWrap \in 1 .. q - Long
    OBVIOUS
  <1> HIDE DEF q
  <1>4. CASE wraps.near = 1 /\ Void(p)
    <2>1. q = p - Long - 1 /\ p > Long /\ p <= Long + Long
      BY <1>1, <1>2, <1>3, <1>4 DEF Void
    <2>2. p - Long >= Penalty - f
      BY <1>1, <2>1 DEF Ahead
    <2>3. q >= Penalty - (f + 1) /\ q \in 1 .. Long
      BY <1>1, <2>1, <2>2
    <2> QED
      BY <2>3 DEF Ahead
  <1>5. CASE wraps.near = 1 /\ ~Void(p)
    BY <1>1, <1>3, <1>5 DEF Ahead, Void
  <1>6. CASE wraps.near # 1 /\ Void(p)
    <2>1. q = p - 1 /\ ToWrap = wraps.near - 1 /\ wraps.near > 1
      BY <1>1, <1>2, <1>3, <1>6 DEF Void, Ahead, ToWrap
    <2> QED
      BY <1>1, <1>6, <2>1 DEF Void, Ahead
  <1>7. CASE wraps.near # 1 /\ ~Void(p)
    BY <1>1, <1>2, <1>3, <1>7 DEF Void, Ahead
  <1> QED
    BY <1>4, <1>5, <1>6, <1>7

(* What the pass has made of the two before it comes to Decide.            *)
Mended(r, clean, f) ==
  /\ r.own \in Switches /\ r.adr \in Adrs /\ r.loss \in Losses /\ r.falls \in BOOLEAN
  /\ RowOf(r.own, r.adr, clean)
  /\ PenaltyOf(f, r.adr, ToWrap)
  /\ r.own.target # None =>
       own.target # None /\ r.adr.age = Older(adr.age, SwitchTimeout + 1)

(* Poll, ServiceModeSwitch and MaybeRendezvous leave DriveAdr a state in   *)
(* which the row and the penalty are as they should be.                    *)
LEMMA RecoveredKeeps ==
  ASSUME RateInv
  PROVE  Mended(Recovered, IF Recovered.falls THEN 0 ELSE history.clean,
                   IF Recovered.falls THEN 0 ELSE Older(history.fallback, Penalty))
  <1> DEFINE r == Recovered
             c == Clocks
             expired == own.probation /\ c.probation = Probation
             ms == IF expired THEN Service(PollExpired(own)) ELSE own
             due == c.heard = Rendezvous /\ c.rendezvous = Rendezvous
             falls == due /\ ms.current # RendezvousMode
             older == [adr EXCEPT !.age = Older(@, SwitchTimeout + 1),
                                  !.cooldown_until = Nearer(@), !.penalized_until = Nearer(@)]
  <1>1. /\ r.own = IF falls THEN Begin(RendezvousMode) ELSE ms
        /\ r.adr = IF falls THEN OnFallback(older, ms.current) ELSE older
        /\ r.loss = IF falls THEN [retx |-> 0, fresh |-> FALSE] ELSE Applied(loss, own, ms)
        /\ r.falls = falls
    BY DEF Recovered
  <1>2. /\ own \in Switches /\ adr \in Adrs /\ loss \in Losses
        /\ wraps.near \in Nat /\ history.fallback \in 0 .. Penalty /\ history.clean \in 0 .. UpStable
    BY RateTypes DEF RateInv
  <1>3. falls \in BOOLEAN
    OBVIOUS
  <1> HIDE DEF due
  <1>4. /\ ms \in Switches /\ ms.target = own.target
        /\ Busy(ms) => Busy(own)
        /\ ms.current # own.current => Busy(own)
    <2>1. CASE expired
      BY <1>2, <2>1, ExpiryQuiet
    <2>2. CASE ~expired
      BY <1>2, <2>2
    <2> QED
      BY <2>1, <2>2
  <1> HIDE DEF c
  <1> HIDE DEF ms
  <1>5. /\ older \in Adrs /\ older.age = Older(adr.age, SwitchTimeout + 1)
        /\ older.stable = adr.stable /\ older.penalized = adr.penalized
        /\ older.penalized_until = Nearer(adr.penalized_until)
    <2>1. adr.cooldown_until \in Ticks /\ adr.penalized_until \in Ticks
      BY <1>2 DEF Adrs
    <2>2. Nearer(adr.cooldown_until) \in Ticks /\ Nearer(adr.penalized_until) \in Ticks
      BY <1>2, <2>1, NearerTicks
    <2>3. Older(adr.age, SwitchTimeout + 1) \in 0 .. SwitchTimeout + 1
      BY <1>2, SMTT(20) DEF Adrs, Older
    <2> QED
      BY <1>2, <2>2, <2>3 DEF Adrs
  <1> HIDE DEF older
  <1>6. adr.stable \in Nat /\ RowOf(own, adr, history.clean)
    BY <1>2 DEF RateInv, RowIsClean, RowOf, Adrs
  <1> SUFFICES Mended(r, IF r.falls THEN 0 ELSE history.clean,
                         IF r.falls THEN 0 ELSE Older(history.fallback, Penalty))
    OBVIOUS
  <1> HIDE DEF r
  <1>7. CASE falls
    <2> DEFINE b == Begin(RendezvousMode)
    <2>1. RendezvousMode \in Modes /\ RendezvousMode \notin Fsk
      BY DEF LoRa
    <2>2. b \in Switches /\ ~Busy(b) /\ b.current = RendezvousMode /\ b.target = None
      BY <2>1 DEF Begin, Switches, Busy
    <2> HIDE DEF b
    <2>3. ms.current \in Modes /\ ms.current # None
      BY <1>4 DEF Switches, None
    <2> DEFINE a == OnFallback(older, ms.current)
    <2>4. /\ Until(Cooldown) \in Ticks /\ Until(Penalty) \in Ticks
          /\ (Until(Penalty) = Long + Penalty /\ ToWrap \in 1 .. Penalty) \/ Until(Penalty) = Penalty
      BY <1>2, UntilTicks, LongIsLong
    <2>5. /\ a \in Adrs /\ a.stable = 0 /\ a.penalized = ms.current
          /\ a.penalized_until = Until(Penalty)
      <3> DEFINE f == Forget(older)
      <3>1. f \in Adrs /\ f.stable = 0
        BY <1>5, ForgetKeeps
      <3> HIDE DEF f
      <3>2. a = [f EXCEPT !.cooldown_until = Until(Cooldown), !.penalized = ms.current,
                          !.penalized_until = Until(Penalty)]
        BY DEF OnFallback, f
      <3> QED
        BY <2>3, <2>4, <3>1, <3>2 DEF Adrs
    <2> HIDE DEF a
    <2>6. r.own = b /\ r.adr = a /\ r.loss = [retx |-> 0, fresh |-> FALSE] /\ r.falls = TRUE
      BY <1>1, <1>7 DEF a, b
    <2>7. r.loss \in Losses
      BY <2>6 DEF Losses
    <2>8. RowOf(r.own, r.adr, 0)
      BY <2>1, <2>2, <2>5, <2>6 DEF RowOf
    <2>9. PenaltyOf(0, r.adr, ToWrap)
      BY <2>3, <2>4, <2>5, <2>6, LongIsLong DEF PenaltyOf, Ahead, Void
    <2> QED
      BY <2>2, <2>5, <2>6, <2>7, <2>8, <2>9 DEF Mended
  <1>8. CASE ~falls
    <2>1. r.own = ms /\ r.adr = older /\ r.loss = Applied(loss, own, ms) /\ r.falls = FALSE
      BY <1>1, <1>8
    <2>2. r.loss \in Losses
      BY <1>2, <2>1 DEF Applied, Losses
    <2>3. RowOf(r.own, r.adr, history.clean)
      BY <1>2, <1>4, <1>5, <1>6, <2>1 DEF RowOf
    <2>4. PenaltyOf(Older(history.fallback, Penalty), r.adr, ToWrap)
      <3> SUFFICES ASSUME Older(history.fallback, Penalty) < Penalty
                   PROVE  /\ adr.penalized # None
                          /\ LET q == Nearer(adr.penalized_until)
                                 g == Older(history.fallback, Penalty)
                             IN  \/ Ahead(q) /\ q >= Penalty - g
                                 \/ Void(q) /\ q - Long >= Penalty - g /\ ToWrap \in 1 .. q - Long
        BY <1>5, <2>1 DEF PenaltyOf
      <3>1. history.fallback < Penalty /\ Older(history.fallback, Penalty) = history.fallback + 1
        BY <1>2 DEF Older
      <3>2. /\ adr.penalized # None
            /\ \/ /\ Ahead(adr.penalized_until)
                  /\ adr.penalized_until >= Penalty - history.fallback
               \/ /\ Void(adr.penalized_until)
                  /\ adr.penalized_until - Long >= Penalty - history.fallback
                  /\ wraps.near \in 1 .. adr.penalized_until - Long
        BY <3>1 DEF RateInv, PenaltyHolds
      <3>3. adr.penalized_until \in Ticks
        BY <1>2 DEF Adrs
      <3> QED
        BY <1>2, <3>1, <3>2, <3>3, PenaltyAges
    <2> QED
      BY <1>4, <1>5, <2>1, <2>2, <2>3, <2>4 DEF Mended
  <1> QED
    BY <1>3, <1>7, <1>8

(* A board just booted.                                                    *)
LEMMA RateInit_Inv ==
  RateInit => RateInv
  <1> SUFFICES ASSUME RateInit PROVE RateInv
    OBVIOUS
  <1>1. BootMode \in Modes /\ BootMode \notin Fsk
    BY DEF LoRa
  <1>2. own \in Switches /\ ~Busy(own) /\ own.current = BootMode /\ own.target = None
    BY <1>1 DEF RateInit, Begin, Switches, Busy
  <1>3. adr \in Adrs /\ adr.stable = 0 /\ adr.age = 0
    <2>1. 0 \in 0 .. SwitchTimeout + 1 /\ 0 \in 0 .. UpStable - 1 /\ None \in Ticks
      BY LongIsLong
    <2> QED
      BY <2>1 DEF RateInit, Adrs
  <1>4. /\ loss \in Losses /\ calm \in BOOLEAN
        /\ wraps \in [left : 0 .. MaxWraps, near : 0 .. LastPeriods]
        /\ history \in [fallback : 0 .. Penalty, asked : 0 .. SwitchTimeout + 2, clean : 0 .. UpStable]
        /\ history.fallback = Penalty /\ history.clean = 0
    <2>1. loss \in Losses /\ calm \in BOOLEAN
      BY DEF RateInit, Losses
    <2>2. wraps \in [left : 0 .. MaxWraps, near : 0 .. LastPeriods]
      BY DEF RateInit
    <2>3. history = [fallback |-> Penalty, asked |-> 0, clean |-> 0]
      BY DEF RateInit
    <2>4. Penalty \in 0 .. Penalty /\ 0 \in 0 .. SwitchTimeout + 2 /\ 0 \in 0 .. UpStable
      OBVIOUS
    <2> QED
      BY <2>1, <2>2, <2>3, <2>4
  <1>5. RateTypeOK
    BY <1>2, <1>3, <1>4 DEF RateTypeOK, Adrs, Losses
  <1>6. RequestIsTimed /\ RowIsClean /\ PenaltyHolds
    BY <1>1, <1>2, <1>3, <1>4 DEF RequestIsTimed, RowIsClean, PenaltyHolds
  <1> QED
    BY <1>5, <1>6 DEF RateInv

(* What a pass of the loop makes of the invariant, and of NoClimbBack.     *)
Climb == Climbs /\ history'.fallback < Penalty /\ ~Void(adr'.penalized_until)
           => Rank(own'.target) < Rank(adr'.penalized)
CleanClimb == Climbs /\ own'.current # LastLora => history.clean >= UpStable - 1

(* A period: what Decide does with the state the pass has left it.         *)
LEMMA LoopTopKeeps ==
  RateInv /\ LoopTop => RateInv' /\ Climb /\ CleanClimb
  <1> SUFFICES ASSUME RateInv, LoopTop PROVE RateInv' /\ Climb /\ CleanClimb
    OBVIOUS
  <1> DEFINE r == Recovered
             busy == Busy(r.own)
             cur == r.own.current
             retx == r.loss.retx
             d == Decide(r.adr, busy, cur, retx)
             clean == IF r.falls THEN 0 ELSE history.clean
             f == IF r.falls THEN 0 ELSE Older(history.fallback, Penalty)
  <1>1. /\ own' = CarryOut(d, r.own) /\ adr' = d.adr /\ loss' = r.loss
        /\ history' = History(r, d) /\ wraps' = [wraps EXCEPT !.near = ToWrap]
        /\ calm' = calm
    BY DEF LoopTop
  <1>2. /\ own \in Switches /\ adr \in Adrs /\ loss \in Losses
        /\ wraps.near \in 0 .. LastPeriods /\ wraps.near \in Nat
        /\ wraps.left \in 0 .. MaxWraps /\ wraps = [left |-> wraps.left, near |-> wraps.near]
        /\ history.fallback \in 0 .. Penalty /\ history.asked \in 0 .. SwitchTimeout + 2
        /\ history.clean \in 0 .. UpStable /\ calm \in BOOLEAN
    BY RateTypes DEF RateInv
  <1>3. /\ r.own \in Switches /\ r.adr \in Adrs /\ r.loss \in Losses /\ r.falls \in BOOLEAN
        /\ RowOf(r.own, r.adr, clean)
        /\ PenaltyOf(f, r.adr, ToWrap)
        /\ r.own.target # None =>
             own.target # None /\ r.adr.age = Older(adr.age, SwitchTimeout + 1)
    BY RecoveredKeeps DEF Mended
  <1>4. history' = [fallback |-> f,
                    asked |-> IF own.target = None \/ d.kind = "request" THEN 0
                              ELSE Older(history.asked, SwitchTimeout + 2),
                    clean |-> CASE d.kind # "none" -> 0
                                [] d.kind = "none" /\ Evaluates(r.adr, busy) -> Clean(clean, retx)
                                [] OTHER -> clean]
    BY <1>1 DEF History
  <1> HIDE DEF r
  <1>5. busy \in BOOLEAN /\ cur \in Modes /\ retx \in Retxs
    BY <1>3 DEF Busy, Switches, Losses
  <1>6. Decides(r.adr, busy, cur, retx, d)
    BY <1>2, <1>3, <1>5, DecideCases
  <1> HIDE DEF d
  <1>7. /\ clean \in 0 .. UpStable /\ clean <= history.clean
        /\ f \in 0 .. Penalty
    <2>1. clean \in {0, history.clean}
      OBVIOUS
    <2>2. f \in {0, Older(history.fallback, Penalty)}
      OBVIOUS
    <2>3. Older(history.fallback, Penalty) \in 0 .. Penalty
      BY <1>2, OlderIsBounded
    <2> HIDE DEF clean
    <2> HIDE DEF f
    <2>4. /\ 0 \in 0 .. UpStable /\ 0 \in 0 .. Penalty
          /\ 0 <= history.clean /\ history.clean <= history.clean
      BY <1>2, SMTT(20)
    <2> QED
      BY <1>2, <2>1, <2>2, <2>3, <2>4, ZenonT(30)
  <1> HIDE DEF clean
  <1> HIDE DEF f
  <1>8. d.adr \in Adrs /\ SamePenalty(r.adr, d.adr)
    BY <1>6 DEF Decides
  <1> HIDE DEF retx
  <1> HIDE DEF busy
  <1>9. PenaltyHolds'
    <2>1. history'.fallback = f /\ wraps'.near = ToWrap
      BY <1>1, <1>2, <1>4
    <2>2. PenaltyOf(history'.fallback, adr', wraps'.near)
      BY <1>1, <1>3, <1>8, <2>1 DEF PenaltyOf, SamePenalty
    <2> QED
      BY <2>2 DEF PenaltyHolds, PenaltyOf, Ahead, Void
  <1>10. ToWrap \in 0 .. LastPeriods /\ wraps' = [left |-> wraps.left, near |-> ToWrap]
    <2>1. ToWrap \in 0 .. LastPeriods
      BY ONLY <1>2, TimerAssumption DEF ToWrap
    <2> QED
      BY <1>1, <1>2, <2>1
  <1>11. Clean(clean, retx) \in 0 .. UpStable
    BY <1>7 DEF Clean, Older
  <1>12. history'.clean \in 0 .. UpStable
    BY <1>4, <1>7, <1>11
  <1>13. history'.asked \in 0 .. SwitchTimeout + 2
    <2>0. SwitchTimeout + 2 \in Nat
      OBVIOUS
    <2>1. Older(history.asked, SwitchTimeout + 2) \in 0 .. SwitchTimeout + 2
      BY <1>2, <2>0, OlderIsBounded
    <2> QED
      BY <1>4, <2>1, SMTT(20)
  <1>14. own' \in Switches => RateTypeOK'
    <2> SUFFICES ASSUME own' \in Switches PROVE RateTypeOK'
      OBVIOUS
    <2>1. history' \in [fallback : 0 .. Penalty, asked : 0 .. SwitchTimeout + 2, clean : 0 .. UpStable]
      BY <1>4, <1>7, <1>12, <1>13
    <2>2. wraps' \in [left : 0 .. MaxWraps, near : 0 .. LastPeriods]
      BY <1>2, <1>10
    <2>3. adr' \in Adrs /\ loss' \in Losses /\ calm' \in BOOLEAN
      BY <1>1, <1>2, <1>3, <1>8
    <2> QED
      BY <2>1, <2>2, <2>3 DEF RateTypeOK, Adrs, Losses, Ticks, Long, Switches
  <1>15. CASE Asks(r.adr, busy, cur, d)
    <2>1. ~busy /\ d.kind = "request" /\ d.mode \in Modes /\ d.adr.age = 0 /\ d.adr.stable = 0
      BY <1>15 DEF Asks
    <2>2. own' = IF d.mode = cur THEN r.own ELSE [r.own EXCEPT !.target = d.mode]
      BY <1>1, <2>1 DEF CarryOut, Request, busy
    <2>3. own' \in Switches /\ own'.current = cur /\ own'.target \in {None, d.mode}
      BY <1>3, <2>1, <2>2 DEF Switches, Busy, busy
    <2>4. RequestIsTimed'
      BY <1>1, <1>4, <2>1 DEF RequestIsTimed
    <2>5. RowIsClean'
      BY <1>1, <1>12, <2>1 DEF RowIsClean
    <2>6. Climb
      <3> SUFFICES ASSUME Climbs, history'.fallback < Penalty, ~Void(adr'.penalized_until)
                   PROVE  Rank(own'.target) < Rank(adr'.penalized)
        BY DEF Climb
      <3>1. own'.target = d.mode /\ Faster(d.mode, cur)
        BY <2>3 DEF Climbs, Requests
      <3>2. adr'.penalized # None /\ Ahead(adr'.penalized_until)
        BY <1>9 DEF PenaltyHolds, Ahead, Void
      <3> QED
        BY <1>1, <1>8, <1>15, <3>1, <3>2 DEF Asks, SamePenalty
    <2>7. CleanClimb
      <3> SUFFICES ASSUME Climbs, cur # LastLora PROVE history.clean >= UpStable - 1
        BY <2>3 DEF CleanClimb
      <3>1. own'.target = d.mode /\ Faster(d.mode, cur)
        BY <2>3 DEF Climbs, Requests
      <3>2. r.adr.stable + 1 >= UpStable /\ r.adr.stable <= clean /\ r.adr.stable \in Nat
        BY <1>3, <1>15, <3>1 DEF Asks, RowOf, Adrs
      <3> QED
        BY ONLY <1>2, <1>7, <3>2, TimerAssumption
    <2> QED
      BY <1>9, <1>14, <2>3, <2>4, <2>5, <2>6, <2>7 DEF RateInv
  <1>16. CASE d.kind = "abort" /\ d.adr.stable = 0
    <2>1. own' = Abort(r.own)
      BY <1>1, <1>16 DEF CarryOut
    <2>2. own' \in Switches /\ own'.target = None
      BY <1>3, <2>1 DEF Abort, Switches
    <2>3. RequestIsTimed' /\ RowIsClean'
      BY <1>1, <1>12, <1>16, <2>2 DEF RequestIsTimed, RowIsClean
    <2>4. Climb /\ CleanClimb
      BY <2>2 DEF Climb, CleanClimb, Climbs, Requests
    <2> QED
      BY <1>9, <1>14, <2>2, <2>3, <2>4 DEF RateInv
  <1>17. CASE Waits(r.adr, busy, cur, retx, d)
    <2>1. own' = r.own
      BY <1>1, <1>17 DEF CarryOut, Waits
    <2>2. Climb /\ CleanClimb
      BY <1>3, <2>1 DEF Climb, CleanClimb, Climbs, Requests
    <2>3. RequestIsTimed'
      <3> SUFFICES ASSUME r.own.target # None
                   PROVE  adr'.age <= SwitchTimeout /\ history'.asked <= adr'.age
        BY <2>1 DEF RequestIsTimed
      <3>1. busy
        BY DEF Busy, busy
      <3>2. adr'.age = Older(adr.age, SwitchTimeout + 1) /\ adr'.age <= SwitchTimeout
        BY <1>1, <1>3, <1>17, <3>1 DEF Waits
      <3>3. own.target # None /\ adr.age <= SwitchTimeout /\ history.asked <= adr.age
        BY <1>3 DEF RateInv, RequestIsTimed
      <3>4. history'.asked = Older(history.asked, SwitchTimeout + 2)
        BY <1>4, <1>17, <3>3 DEF Waits
      <3>5. adr.age \in Nat /\ history.asked \in Nat
        BY <1>2 DEF Adrs
      <3> QED
        BY <3>2, <3>3, <3>4, <3>5, SMTT(20) DEF Older
    <2>4. Busy(own') \/ own'.current \in Fsk => adr'.stable = 0
      BY <1>1, <1>3, <1>17, <2>1 DEF Waits, RowOf, busy
    <2>5. own'.current # LastLora => adr'.stable <= history'.clean
      <3> SUFFICES ASSUME cur # LastLora PROVE d.adr.stable <= history'.clean
        BY <1>1, <2>1
      <3>1. /\ r.adr.stable <= clean /\ r.adr.stable \in Nat /\ d.adr.stable \in 0 .. UpStable - 1
            /\ d.adr.stable <= r.adr.stable + 1
        BY <1>3, <1>8, <1>17 DEF RowOf, Adrs, Waits
      <3>2. CASE Evaluates(r.adr, busy)
        <4>1. history'.clean = Clean(clean, retx)
          BY <1>4, <1>17, <3>2 DEF Waits
        <4>2. CASE retx <= UpMaxRetx
          <5>1. history'.clean = Older(clean, UpStable)
            <6>1. retx \in Int /\ UpMaxRetx \in Int
              BY ONLY <1>5, TimerAssumption
            <6>2. ~(retx > UpMaxRetx)
              BY ONLY <4>2, <6>1
            <6> QED
              BY ONLY <4>1, <6>2 DEF Clean
          <5>2. clean \in Nat /\ UpStable \in Nat
            BY ONLY <1>7, TimerAssumption
          <5> QED
            BY ONLY <3>1, <5>1, <5>2 DEF Older
        <4>3. CASE ~(retx <= UpMaxRetx)
          <5>1. d.adr.stable = 0
            <6>1. cur \in Fsk => r.adr.stable = 0
              BY <1>3 DEF RowOf
            <6> QED
              BY <1>17, <3>2, <4>3, <6>1 DEF Waits
          <5> QED
            BY <1>12, <5>1
        <4> QED
          BY <4>2, <4>3
      <3>3. CASE ~Evaluates(r.adr, busy)
        <4>1. d.adr = r.adr /\ history'.clean = clean
          BY <1>4, <1>17, <3>3 DEF Waits
        <4> QED
          BY <3>1, <4>1
      <3> QED
        BY <3>2, <3>3
    <2>6. RowIsClean'
      BY <2>4, <2>5 DEF RowIsClean, Busy
    <2> QED
      BY <1>3, <1>9, <1>14, <2>1, <2>2, <2>3, <2>6 DEF RateInv
  <1> QED
    BY <1>6, <1>15, <1>16, <1>17 DEF Decides

(* A frame from the peer, with or without an answer.                       *)
LEMMA HeardKeeps ==
  ASSUME NEW ctrl \in Nat
  PROVE  RateInv /\ Heard(ctrl) => RateInv' /\ (own'.target # None => own.target # None)
  <1> SUFFICES ASSUME RateInv, Heard(ctrl)
               PROVE  RateInv' /\ (own'.target # None => own.target # None)
    OBVIOUS
  <1> DEFINE ms == Service(AfterRecv(own, ctrl, TRUE))
  <1>1. /\ own' = ms /\ UNCHANGED <<adr, calm, wraps, history>>
        /\ IF ms.current = own.current THEN NextLoss ELSE loss' = Applied(loss, own, ms)
    BY DEF Heard
  <1>2. own \in Switches /\ loss \in Losses /\ adr.stable \in Nat
    BY RateTypes DEF RateInv, Adrs
  <1>3. /\ own' \in Switches /\ own'.target \in {own.target, None}
        /\ Busy(own') => Busy(own)
        /\ own'.current # own.current => Busy(own)
    BY <1>1, <1>2, RecvQuiet
  <1> HIDE DEF ms
  <1>4. loss' \in Losses
    <2>1. CASE loss' = loss
      BY <1>2, <2>1
    <2>2. CASE \E x \in Retxs : loss' = [retx |-> x, fresh |-> TRUE]
      BY <2>2 DEF Losses
    <2>3. CASE loss' = Applied(loss, own, ms)
      BY <1>2, <2>3 DEF Applied, Losses
    <2> QED
      BY <1>1, <2>1, <2>2, <2>3 DEF NextLoss
  <1>5. RateTypeOK'
    BY <1>1, <1>3, <1>4 DEF RateInv, RateTypeOK, Losses, Switches, Ticks, Long
  <1>6. RequestIsTimed'
    BY <1>1, <1>3 DEF RateInv, RequestIsTimed
  <1>7. RowIsClean'
    <2>1. /\ Busy(own) \/ own.current \in Fsk => adr.stable = 0
          /\ own.current # LastLora => adr.stable <= history.clean
      BY DEF RateInv, RowIsClean
    <2>2. history.clean \in Nat
      BY RateTypes DEF RateInv
    <2>3. Busy(own') \/ own'.current \in Fsk => adr.stable = 0
      BY <1>3, <2>1
    <2>4. own'.current # LastLora => adr.stable <= history.clean
      BY <1>3, <2>1, <2>2
    <2> QED
      BY <1>1, <2>3, <2>4 DEF RowIsClean, Busy
  <1>8. PenaltyHolds'
    BY <1>1 DEF RateInv, PenaltyHolds, Ahead, Void, Long
  <1> QED
    BY <1>3, <1>5, <1>6, <1>7, <1>8 DEF RateInv

(* A turn is a frame heard, with an answer to the request or without.      *)
LEMMA TurnKeeps ==
  RateInv /\ RateTurn => RateInv' /\ (own'.target # None => own.target # None)
  <1> SUFFICES ASSUME RateInv, RateTurn
               PROVE  RateInv' /\ (own'.target # None => own.target # None)
    OBVIOUS
  <1>1. PICK ctrl \in {0, CtrlEncode(own.target, TRUE)} : Heard(ctrl)
    BY DEF RateTurn, Answered, Unanswered
  <1>2. CtrlEncode(own.target, TRUE) \in Nat
    <2>1. own.target \in Int
      <3>1. own \in Switches
        BY RateTypes DEF RateInv
      <3>2. own.target \in Modes \union {None}
        BY <3>1 DEF Switches
      <3>3. None \in Int /\ \A m \in Modes : m \in Int
        BY DEF None
      <3> QED
        BY ONLY <3>2, <3>3
    <2> QED
      BY <2>1, SMTT(20) DEF CtrlEncode
  <1> QED
    BY <1>1, <1>2, HeardKeeps

(* The wrap of millis() coming near and passing; the channel calming down. *)
LEMMA WrapKeeps ==
  RateInv /\ (WrapNears \/ RevivedPasses \/ Calms) => RateInv' /\ own' = own
  <1> SUFFICES ASSUME RateInv, WrapNears \/ RevivedPasses \/ Calms
               PROVE  RateInv' /\ own' = own
    OBVIOUS
  <1>1. /\ RateTypeOK /\ adr \in Adrs /\ wraps.left \in 0 .. MaxWraps /\ wraps.near \in 0 .. LastPeriods
        /\ history.fallback \in 0 .. Penalty
    BY RateTypes DEF RateInv
  <1>2. CASE WrapNears
    <2>1. /\ wraps.left > 0 /\ wraps.near = 0
          /\ wraps' = [left |-> wraps.left - 1, near |-> LastPeriods]
          /\ UNCHANGED <<adr, own, radio, loss, clocks, calm, history>>
      BY <1>2 DEF WrapNears
    <2>2. wraps' \in [left : 0 .. MaxWraps, near : 0 .. LastPeriods]
      BY <1>1, <2>1
    <2>3. RateTypeOK'
      BY <1>1, <2>1, <2>2 DEF RateTypeOK, Switches, Ticks, Long
    <2>4. RequestIsTimed' /\ RowIsClean'
      BY <2>1 DEF RateInv, RequestIsTimed, RowIsClean, Busy
    <2>5. PenaltyHolds'
      <3>1. history.fallback < Penalty =>
              /\ adr.penalized # None
              /\ Ahead(adr.penalized_until)
              /\ adr.penalized_until >= Penalty - history.fallback
        BY <2>1 DEF RateInv, PenaltyHolds
      <3> QED
        BY <2>1, <3>1 DEF PenaltyHolds, Ahead, Long
    <2> QED
      BY <2>1, <2>3, <2>4, <2>5 DEF RateInv
  <1>3. CASE RevivedPasses
    <2> DEFINE Passed(x) == IF x = Long THEN 0 ELSE x
    <2>1. /\ history.fallback = Penalty
          /\ adr' = [adr EXCEPT !.cooldown_until = Passed(@), !.penalized_until = Passed(@)]
          /\ UNCHANGED <<own, radio, loss, clocks, calm, wraps, history>>
      BY <1>3 DEF RevivedPasses
    <2>2. \A x \in Ticks : Passed(x) \in Ticks
      BY LongIsLong DEF Ticks
    <2> HIDE DEF Passed
    <2>3. adr' \in Adrs /\ adr'.age = adr.age /\ adr'.stable = adr.stable
      BY <1>1, <2>1, <2>2 DEF Adrs
    <2>4. RateTypeOK'
      BY <1>1, <2>1, <2>3 DEF RateTypeOK, Switches, Adrs, Ticks, Long
    <2>5. RequestIsTimed' /\ RowIsClean'
      BY <2>1, <2>3 DEF RateInv, RequestIsTimed, RowIsClean, Busy
    <2>6. PenaltyHolds'
      BY <2>1 DEF PenaltyHolds
    <2> QED
      BY <2>1, <2>4, <2>5, <2>6 DEF RateInv
  <1>4. CASE Calms
    <2>1. calm' = TRUE /\ UNCHANGED <<adr, own, radio, loss, clocks, wraps, history>>
      BY <1>4 DEF Calms
    <2>2. RateTypeOK'
      BY <1>1, <2>1 DEF RateTypeOK, Switches, Ticks, Long
    <2>3. RequestIsTimed' /\ RowIsClean' /\ PenaltyHolds'
      BY <2>1 DEF RateInv, RequestIsTimed, RowIsClean, PenaltyHolds, Busy, Ahead, Void, Long
    <2> QED
      BY <2>1, <2>2, <2>3 DEF RateInv
  <1> QED
    BY <1>2, <1>3, <1>4

(* Every step of the rate control.                                         *)
LEMMA RateStep ==
  RateInv /\ [RateNext]_rateVars => RateInv' /\ Climb /\ CleanClimb
  <1> SUFFICES ASSUME RateInv, [RateNext]_rateVars PROVE RateInv' /\ Climb /\ CleanClimb
    OBVIOUS
  <1>1. own'.target = None \/ own.target # None => Climb /\ CleanClimb
    BY DEF Climb, CleanClimb, Climbs, Requests
  <1>2. CASE LoopTop
    BY <1>2, LoopTopKeeps
  <1>3. CASE RateTurn
    BY <1>1, <1>3, TurnKeeps
  <1>4. CASE WrapNears \/ RevivedPasses \/ Calms
    BY <1>1, <1>4, WrapKeeps
  <1>5. CASE UNCHANGED rateVars
    <2>1. RateInv'
      BY <1>5 DEF rateVars, RateInv, RateTypeOK, RequestIsTimed, RowIsClean, PenaltyHolds,
                  Switches, Ticks, Long, Busy, Ahead, Void
    <2> QED
      BY <1>1, <1>5, <2>1 DEF rateVars
  <1> QED
    BY <1>2, <1>3, <1>4, <1>5 DEF RateNext

(* fw_device.cpp: a switch that is not acknowledged is given up in time,   *)
(* whatever the channel, the penalties and the wrap of millis() do.        *)
THEOREM SwitchesEnd == RateSpec => []SwitchEnds
  <1>1. RateInv => SwitchEnds
    <2> SUFFICES ASSUME RateInv, own.target # None
                 PROVE  history.asked <= SwitchTimeout + 1
      BY DEF SwitchEnds
    <2>1. history.asked \in Int /\ adr.age \in Int
      <3>1. history.asked \in 0 .. SwitchTimeout + 2 /\ adr \in Adrs
        BY RateTypes DEF RateInv
      <3> QED
        BY <3>1 DEF Adrs
    <2>2. adr.age <= SwitchTimeout /\ history.asked <= adr.age
      BY DEF RateInv, RequestIsTimed
    <2> QED
      BY <2>1, <2>2
  <1> QED
    BY <1>1, RateInit_Inv, RateStep, PTL DEF RateSpec

(* adr.h, OnFallback and up_stable.                                        *)
THEOREM ClimbsKeepTheRules == RateSpec => NoClimbBack
  <1>1. RateSpec => [][Climb]_rateVars
    <2>1. RateInv /\ [RateNext]_rateVars => [Climb]_rateVars
      BY RateStep
    <2> QED
      BY <2>1, RateInit_Inv, RateStep, PTL DEF RateSpec
  <1>2. RateSpec => [][CleanClimb]_rateVars
    <2>1. RateInv /\ [RateNext]_rateVars => [CleanClimb]_rateVars
      BY RateStep
    <2> QED
      BY <2>1, RateInit_Inv, RateStep, PTL DEF RateSpec
  <1> QED
    BY <1>1, <1>2 DEF NoClimbBack, ClimbsWhenClean, Climb, CleanClimb

(* The three of them in MCAdapt.                                           *)
THEOREM AdaptSound == AdaptSpec => []AdaptTypeOK
  <1>1. AdaptInit => AdaptTypeOK
    BY RateInit_Inv, PowersInit, RecoveryInit_Inv DEF AdaptInit, AdaptTypeOK
  <1>2. AdaptTypeOK /\ [AdaptNext]_adaptVars => AdaptTypeOK'
    <2>1. [AdaptNext]_adaptVars
            => [RateNext]_rateVars /\ [BudgetNext]_budgetVars /\ [RecoveryNext]_recoveryVars
      BY DEF AdaptNext, adaptVars
    <2> QED
      BY <2>1, RateStep, PowersStep, RecoveryStep DEF AdaptTypeOK
  <1> QED
    BY <1>1, <1>2, PTL DEF AdaptSpec

=============================================================================
