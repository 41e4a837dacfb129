----------------------------- MODULE MCModeLink -----------------------------
(* Small instances of ModeLink for TLC. *)
EXTENDS ModeLink

Installed(auto, ladder, faults, most, asks) ==
  {[auto |-> auto, ladder |-> ladder, faults |-> faults, most |-> most, asks |-> asks]}

\* The handshake and its probation alone, on a channel that loses frames.
HandshakeOnly == Installed(Node, {}, {"loss"}, 5, 2)

\* 'auto' on both ends, healed without a reboot; and a pinned pair with all.
Recovering == Installed(Node, {"rendezvous"}, Disturbances, 1, 1)
         \cup Installed({}, Recoveries, {"loss", "early", "reboot"}, 2, 1)

Installations == HandshakeOnly \cup Recovering

\* Another pair within earshot.
Neighbours == Installed(Node, {}, {"loss", "noise"}, 3, 1)

\* 'auto' on the initiator only.
InitiatorAuto == Installed({Initiator}, Recoveries, {"reboot"}, 2, 1)
=============================================================================
