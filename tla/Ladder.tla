------------------------------- MODULE Ladder -------------------------------
(***************************************************************************)
(* The rungs of the mode table as ADR and auto-power see them: AdrLadder   *)
(* (lib/linklayer/adr), filled from kRfModes by Radio::BuildAdrLadder.     *)
(* The LoRa presets come fastest first; every one is auto-eligible.        *)
(***************************************************************************)
EXTENDS ModeSwitch, FiniteSetsExt

CONSTANTS
    Fsk,      \* the GFSK modes of the table, if FEAT_GFSK is set
    Floor,    \* snr_floor of the other modes, in half dB
    Margin    \* margin_db, in half dB

LoRa == Modes \ Fsk

ASSUME LadderAssumption ==
    /\ LoRa # {} /\ Floor \in [LoRa -> Int] /\ LoRa = 0 .. Cardinality(LoRa) - 1
    /\ Fsk \subseteq Modes /\ Cardinality(Fsk) <= 1 /\ Margin \in Nat
-----------------------------------------------------------------------------
FastestAutoLora == Min(LoRa)
LastLora == Max(LoRa)
Rank(m) == CASE m = None -> -1000 [] m \in Fsk -> 1000 [] OTHER -> -m
Faster(a, b) == Rank(a) > Rank(b)

PickBySnr(snr) ==
    LET clears == {m \in LoRa : snr >= Floor[m] + Margin}
    IN  IF clears = {} THEN LastLora ELSE Min(clears)

MoreRobust(m) == CASE m \in Fsk -> FastestAutoLora
                   [] m < LastLora -> m + 1
                   [] OTHER -> m
=============================================================================
