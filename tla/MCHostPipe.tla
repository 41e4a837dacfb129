----------------------------- MODULE MCHostPipe -----------------------------
(***************************************************************************)
(* A small host pipe: reads longer than the slack they are allowed, as in  *)
(* the firmware (512 bytes against 8).                                     *)
(***************************************************************************)
EXTENDS HostPipe

KeepAllOrTwo == {[latest |-> FALSE, keep |-> 0], [latest |-> TRUE, keep |-> 2]}
AnyCommand == {[do |-> "ATO"], [do |-> "SINK"], [do |-> "SPEEDTEST"], [do |-> "RELINK"]}
                \union [do : {"BUFMODE"}, policy : KeepAllOrTwo]
=============================================================================
