------------------------------ MODULE MCRadio ------------------------------
(* The slowest LoRa preset and GFSK: a full frame lasts 4 s or 20 ms, and  *)
(* the window is at its least and at its largest.                          *)
EXTENDS Radio, TLC

CONSTANTS far, ludicrous

(* What is in a frame is never looked at: one frame is as good as another.  *)
FrameSymmetry == Permutations(Frames)

MCLora == {far}
MCToa == (far :> 4000) @@ (ludicrous :> 20)
=============================================================================
