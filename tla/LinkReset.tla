------------------------------ MODULE LinkReset ------------------------------
(***************************************************************************)
(* ArqLink when either end starts over: a host that (re)connects makes     *)
(* CheckHostReconnect call NewSession, at any moment, for it runs from the *)
(* radio's idle hook too; a reboot runs Setup and Init with a random       *)
(* epoch.  The other end learns of it from the epoch of the next frame.    *)
(***************************************************************************)
EXTENDS ArqLink

CONSTANTS
  Reconnects,   \* the nodes whose host may reconnect
  Reboots,      \* the nodes that may reboot
  MaxReset,     \* bound: restarts of either kind in a behaviour
  EpochRepeats  \* may a reboot draw the epoch it had, or the one the peer knows?

ASSUME ResetConstants ==
  /\ Reconnects \subseteq Node /\ Reboots \subseteq Node
  /\ MaxReset \in Nat /\ EpochRepeats \in BOOLEAN

VARIABLE resets   \* restarts so far

resetVars == <<vars, resets>>

ResetInit == Init /\ resets = 0

Reconnect(n) ==
  /\ n \in Reconnects
  /\ ll' = [ll EXCEPT ![n] = NewSession(@)]
  /\ out' = [out EXCEPT ![n] = <<>>]          \* a new host session begins
  /\ UNCHANGED <<air, phase, sent, fed, budget>>

Reboot(n) ==
  /\ n \in Reboots
  /\ \E epoch \in 1 .. EPOCHS - 1 :
       /\ EpochRepeats \/ epoch \notin {ll[n].myEpoch, ll[Peer(n)].peerEpoch}
       /\ ll' = [ll EXCEPT ![n] = NewLink(@.window, epoch)]
  /\ air' = [air EXCEPT ![n] = <<>>]
  /\ phase' = [phase EXCEPT ![n] = "idle"]
  /\ sent' = [sent EXCEPT ![n] = FALSE]
  /\ out' = [out EXCEPT ![n] = <<>>]
  /\ UNCHANGED <<fed, budget>>

Restart(n) ==
  /\ resets < MaxReset
  /\ resets' = resets + 1
  /\ Reconnect(n) \/ Reboot(n)

ResetNext == \/ Next /\ UNCHANGED resets
             \/ \E n \in Node : Restart(n)

ResetSpec == ResetInit /\ [][ResetNext]_resetVars
ResetFair == ResetSpec /\ Fairness

-----------------------------------------------------------------------------
Delivered(n) == out[n] \o ll[n].rring

(* In one host session the host is given the peer's chunks in the order in *)
(* which they were written, none twice: a restart may leave a gap, but     *)
(* nothing from before it turns up among what is sent after it             *)
(* (NewSession, and the epoch block of OnRx).                              *)
NothingStale ==
  \A n \in Node : \A i, j \in 1 .. Len(Delivered(n)) :
    i < j => Delivered(n)[i] < Delivered(n)[j]

(* A restart of either kind does not wedge the link: once the peer has     *)
(* heard the new epoch both ends number from 0 again, so what is in flight *)
(* is acked and new data goes through.                                     *)
StillDrains == \A n \in Node : []<>(ll[n].win = <<>>)
=============================================================================
