------------------------------- MODULE MCBoard -------------------------------
(***************************************************************************)
(* Small instances of the parts of one board, and of its pairing, that     *)
(* have no variable in common: the frame counter, the session keys, the    *)
(* settings, the pairing, the teletype, the flash store.  One of them      *)
(* runs, the others stay as they are: each is checked in the same run.     *)
(***************************************************************************)
EXTENDS FrameCounter, Session, Settings, Pairing, Teletype, Prefs,
        TLC

CONSTANT Runs        \* the components that may be the one that runs

VARIABLE running

boardVars == <<vars, sessionVars, settingsVars, pairingVars, teletypeVars, prefsVars,
               running>>

BandLo == 0 :> 1 @@ 1 :> 4
BandHi == 0 :> 2 @@ 1 :> 4
RowSets == {{"region", "freq"}, {"region", "power"}, {"enc", "keep"}, {"mode"}}
ModeRows == {{"mode"}}
MacOrder == "A" :> 1 @@ "B" :> 2

BoardInit ==
    /\ running \in Runs
    /\ Init /\ SessionInit /\ SettingsInit /\ PairingInit /\ TeletypeInit
    /\ PrefsInit
    /\ running # "settings" => initiator /\ rows = {"mode"}
    /\ "mode" \notin rows => initiator         \* the role matters to the mode only

BoardNext ==
    \/ /\ running = "counter" /\ Next
       /\ UNCHANGED <<sessionVars, settingsVars, pairingVars, teletypeVars, prefsVars, running>>
    \/ /\ running = "session" /\ SessionNext
       /\ UNCHANGED <<vars, settingsVars, pairingVars, teletypeVars, prefsVars, running>>
    \/ /\ running = "settings" /\ SettingsNext
       /\ UNCHANGED <<vars, sessionVars, pairingVars, teletypeVars, prefsVars, running>>
    \/ /\ running = "pairing" /\ PairingNext
       /\ UNCHANGED <<vars, sessionVars, settingsVars, teletypeVars, prefsVars, running>>
    \/ /\ running = "teletype" /\ TeletypeNext
       /\ UNCHANGED <<vars, sessionVars, settingsVars, pairingVars, prefsVars, running>>
    \/ /\ running = "prefs" /\ PrefsNext
       /\ UNCHANGED <<vars, sessionVars, settingsVars, pairingVars, teletypeVars, running>>

(* The fairness of each component, when it is the one. *)
BoardFairness ==
    /\ WF_sessionVars(running = "session" /\ Turn)
    /\ WF_sessionVars(running = "session" /\ Answer)
    /\ WF_sessionVars(running = "session" /\ GapPasses)
    /\ SF_sessionVars(running = "session" /\ BackoffEnds)
    /\ \A b \in Pair :
          /\ WF_pairingVars(running = "pairing" /\ Discovery(b))
          /\ WF_pairingVars(running = "pairing" /\ Exchange(b))
          /\ SF_pairingVars(running = "pairing" /\ PairGivesUp(b))
          /\ WF_pairingVars(running = "pairing" /\ Keeps(b))
          /\ WF_pairingVars(running = "pairing" /\ InLoop(b))

BoardSpec == BoardInit /\ [][BoardNext]_boardVars /\ BoardFairness
-----------------------------------------------------------------------------
(* The inductive invariant of each part, its types among them: what the    *)
(* proofs rest on.                                                         *)
BoardTypeOK == /\ IInv /\ SessionInv /\ SettingsInv
               /\ PairingInv /\ TeletypeInv /\ PrefsInv

(* fw_session.h, "automatic and self-healing": where the session is what   *)
(* runs, both ends come to use, and keep, one session key.                 *)
SessionConverges == running = "session" => KeysConverge

(* Where the pairing is what runs, no board is left behind in discovery:   *)
(* the one that missed every beacon of its peer's election is answered by  *)
(* its peer's turns.                                                       *)
PairingEnds == running = "pairing" => BothReachTheLoop
=============================================================================
